---- MODULE Spec2Model ----
(***************************************************************************)
(* Model of operators/lib/osm/overpy/__init__.py and of the page loop of   *)
(* operators/io_import_nvdb.py.                                            *)
(*                                                                         *)
(* Spec: the Overpass client, its endpoint list and the failover/backoff   *)
(* loop of Overpass.query.  One query is a sequence of attempts; every     *)
(* attempt is a urlopen step (the request is sent, the connection answers  *)
(* or fails) followed by a read step (_read_all, close, status dispatch,   *)
(* sleep).                                                                 *)
(* CtorSpec: Overpass.__init__ on every argument combination.              *)
(* GraphSpec: the Result graph, built from a batch of elements and then    *)
(* changed and read by append, expand, get_node / get_way / get_relation   *)
(* and Way.get_nodes, whose lazy resolution calls the client's query.      *)
(* DecodeSpec: Result.from_json and Result.from_xml (whole document and    *)
(* incremental) on small documents, the from_json / from_xml of the        *)
(* element and member classes on single records, and get_bounds.           *)
(* PairSpec: two decoded Results, one merged into the other, with every    *)
(* operation of a Result; an element names the Result it was built for.    *)
(*                                                                         *)
(* PageSpec: the pagination loop _fetch_all_pages of                       *)
(* operators/io_import_nvdb.py against a service of linked pages.          *)
(***************************************************************************)
EXTENDS Integers, Sequences, FiniteSets, TLC

(***************************************************************************)
(* Bounds of the model                                                     *)
(***************************************************************************)
MaxTries == 3        \* largest max_tries argument given to the constructor
MaxFallback == 2     \* longest caller-supplied fallback_servers list
MaxParas == 2        \* <p> paragraphs in the HTML body of a 400 response

(***************************************************************************)
(* URLs.  A URL is a record: scheme, host and whether the text carries     *)
(* surrounding whitespace.  The empty text (and None) is EmptyUrl.         *)
(***************************************************************************)
Url(s, h, p) == [scheme |-> s, host |-> h, pad |-> p]

EmptyUrl == Url("", "", FALSE)

DEFAULT_OVERPASS_SERVERS ==
    << Url("https", "overpass-api.de", FALSE),
       Url("https", "overpass.kumi.systems", FALSE),
       Url("https", "overpass.openstreetmap.ru", FALSE),
       Url("https", "overpass.nchc.org.tw", FALSE) >>

\* _norm: strip the text, upgrade http://overpass-api.de/ to https
_norm(u) ==
    LET s == [u EXCEPT !.pad = FALSE]
    IN  IF s.scheme = "http" /\ s.host = "overpass-api.de"
        THEN [s EXCEPT !.scheme = "https"]
        ELSE s

\* the loop "for u in servers: if u and u not in seen: dedup.append(u)"
RECURSIVE DedupFrom(_, _)
DedupFrom(us, acc) ==
    IF us = << >> THEN acc
    ELSE LET u == Head(us)
         IN  IF u # EmptyUrl /\ \A k \in 1..Len(acc) : acc[k] # u
             THEN DedupFrom(Tail(us), Append(acc, u))
             ELSE DedupFrom(Tail(us), acc)

NoDedup(us) == SelectSeq(us, LAMBDA u : u # EmptyUrl)

\* variant: a URL that occurs again moves to its last occurrence
RECURSIVE DedupKeepLast(_)
DedupKeepLast(us) ==
    IF us = << >> THEN << >>
    ELSE LET u == Head(us)
             t == DedupKeepLast(Tail(us))
         IN  IF u = EmptyUrl \/ \E k \in 1..Len(t) : t[k] = u
             THEN t
             ELSE <<u>> \o t

Dedup(us) == DedupFrom(us, << >>)

\* servers = [base] + (normalised non-empty fallbacks | defaults), deduplicated
ServerList(overpass_server, fallback_servers) ==
    LET n0   == _norm(overpass_server)
        base == IF n0 = EmptyUrl THEN DEFAULT_OVERPASS_SERVERS[1] ELSE n0
        rest == IF fallback_servers # << >>
                THEN SelectSeq([k \in 1..Len(fallback_servers) |->
                                   _norm(fallback_servers[k])],
                               LAMBDA u : u # EmptyUrl)
                ELSE DEFAULT_OVERPASS_SERVERS
    IN  Dedup(<<base>> \o rest)

\* self.max_tries = max(1, int(max_tries))
ClampTries(n) == IF n < 1 THEN 1 ELSE n

(***************************************************************************)
(* Inputs the model draws from                                             *)
(***************************************************************************)
UrlInputs ==
    { EmptyUrl,
      Url("", "", TRUE),
      Url("http", "overpass-api.de", FALSE),
      Url("https", "overpass-api.de", TRUE),
      Url("https", "overpass.kumi.systems", FALSE) }

\* the primary endpoint of the clients the query model runs: absent, blank
\* or a spelling of the overpass-api.de endpoint
PrimaryInputs == { u \in UrlInputs : u.host # "overpass.kumi.systems" }

FallbackInputs ==
    UNION { [1..n -> UrlInputs] : n \in 1..MaxFallback }

\* the arguments of a constructor call: any URL as primary, no fallback list
\* (None or empty) or one of FallbackInputs, max_tries from 0
CtorInputs ==
    [overpass_server  : UrlInputs,
     fallback_servers : {<< >>} \cup FallbackInputs,
     max_tries        : 0..MaxTries]

RetryCodes == {429, 504}
FailoverCodes == {403, 502, 503}
OtherCodes == {204, 500}
StatusCodes == {200, 400} \cup RetryCodes \cup FailoverCodes \cup OtherCodes

JsonType == "application/json"
XmlTypes == {"application/osm3s+xml", "application/xml", "text/xml"}
MediaTypes == {JsonType, "text/html", ""} \cup XmlTypes

\* a Content-Type header: the media type, either bare and in lower case, or
\* decorated: written in mixed case and followed by "; charset=utf-8"
ContentTypeHeaders ==
    [media : MediaTypes, decorated : BOOLEAN]

PlainHtml == [media |-> "text/html", decorated |-> FALSE]

\* Content-Encoding headers: absent, or one that names gzip the way servers
\* may spell it (an alias, in upper case)
EncodingHeaders == {"", "x-GZIP"}

\* response headers the model lets a server send with a status code
HeadersFor(code) ==
    [code  : {code},
     ctype : IF code = 200 THEN ContentTypeHeaders ELSE {PlainHtml},
     cenc  : EncodingHeaders]

\* a body: gz = the bytes are a gzip stream, head = first non-whitespace
\* byte of the payload, ws = the payload starts with whitespace, paras =
\* the <p> paragraphs of an HTML error page, in body order
Body(g, h, w, ps) == [gz |-> g, head |-> h, ws |-> w, paras |-> ps]

\* a paragraph <p>...</p> of an error page: strong = it opens with a
\* <strong ...> tag, text = what is left of it when the tags are taken out
Para(s, t) == [strong |-> s, text |-> t]

\* two error fragments and a plain paragraph
Paragraphs == { Para(TRUE, "e1"), Para(TRUE, "e2"), Para(FALSE, "p") }

ParaSeqs == UNION { [1..n -> Paragraphs] : n \in 0..MaxParas }

BodiesFor(code) ==
    IF code = 200
    THEN { Body(g, h, w, << >>) : g \in BOOLEAN, h \in {"{", "<", "x"}, w \in BOOLEAN }
    ELSE IF code = 400
    THEN { Body(g, "<", FALSE, ps) : g \in BOOLEAN, ps \in ParaSeqs }
    ELSE { Body(FALSE, "<", FALSE, << >>) }

\* a query argument: its text, given as bytes or as str
QueryInputs ==
    { [text |-> "q1", bytes |-> TRUE], [text |-> "q2", bytes |-> FALSE] }

(***************************************************************************)
(* Values.  An optional value (None or v) is the sequence << >> or <<v>>.  *)
(***************************************************************************)
NoResponse == [code |-> 0, ctype |-> PlainHtml, cenc |-> ""]

NoBody == Body(FALSE, "", FALSE, << >>)

NoOutcome == [kind |-> "none"]

\* the n-th URLError caught during a query (connection refused, DNS failure,
\* timeout: the loop treats them alike)
URLError(n) == [exc |-> "URLError", n |-> n]

Raise(name, args) == [kind |-> "raise", exc |-> name, args |-> args]

\* query.encode("utf-8") when the argument is not bytes
Encode(q) == [q EXCEPT !.bytes = TRUE]

\* backoff_base * (attempt + 1), in hundredths of a second
backoff_base == 125

Backoff(a) == backoff_base * (a + 1)

FloorDelay == 200

Max2(a, b) == IF a >= b THEN a ELSE b

\* max(2.0, backoff_base * (attempt + 1)), the delay after a 429
Backoff429(a) == Max2(FloorDelay, Backoff(a))

\* "gzip" in content_encoding.lower()
NamesGzip(cenc) == cenc \in {"gzip", "x-GZIP"}

\* variant: the body is never decompressed
GunzipNever(cenc, body) == body

\* gzip.GzipFile(...).read() when Content-Encoding names gzip; the
\* decompression of bytes that are no gzip stream raises, and the raw bytes
\* are kept
Gunzip(cenc, body) ==
    IF NamesGzip(cenc) /\ body.gz THEN [body EXCEPT !.gz = FALSE] ELSE body

\* variant: the header is compared as it was sent, parameters and case included
CtRaw(h) == IF h.decorated THEN "Decorated; charset=utf-8" ELSE h.media

\* content_type.split(";")[0].strip().lower()
Ct(h) == h.media

\* response.lstrip()[:1]
FirstByte(b) == IF b.gz THEN "gzip-magic" ELSE b.head

\* variant: only the first fragment is looked for
ExtractMsgsFirst(b) ==
    LET found == SelectSeq(b.paras, LAMBDA p : p.strong)
    IN  IF b.gz \/ found = << >> THEN << >> ELSE << found[1].text >>

\* the messages of the <p><strong ...> fragments of the body, markup removed
ExtractMsgs(b) ==
    LET found == SelectSeq(b.paras, LAMBDA p : p.strong)
    IN  IF b.gz THEN << >> ELSE [k \in 1..Len(found) |-> found[k].text]

\* Overpass defines neither parse_json nor parse_xml: the attribute lookup
\* self.parse_json / self.parse_xml raises AttributeError
parse_json(response) == Raise("AttributeError", <<"parse_json">>)

parse_xml(response) == Raise("AttributeError", <<"parse_xml">>)

\* variants of the if-chain: a status code put in the wrong branch
StatusClass429Failover(code) ==
    CASE code = 200 -> "decode"
      [] code = 400 -> "bad_request"
      [] code = 504 -> "gateway_timeout"
      [] code \in {403, 429, 502, 503} -> "failover"
      [] OTHER -> "unknown"

StatusClass504Failover(code) ==
    CASE code = 200 -> "decode"
      [] code = 400 -> "bad_request"
      [] code = 429 -> "rate_limited"
      [] code \in {403, 502, 503, 504} -> "failover"
      [] OTHER -> "unknown"

StatusClass5xxFailover(code) ==
    CASE code = 200 -> "decode"
      [] code = 400 -> "bad_request"
      [] code = 429 -> "rate_limited"
      [] code = 504 -> "gateway_timeout"
      [] code \in {403, 500, 502, 503} -> "failover"
      [] OTHER -> "unknown"

\* the if-chain on the status code, in its order
StatusClass(code) ==
    CASE code = 200 -> "decode"
      [] code = 400 -> "bad_request"
      [] code = 429 -> "rate_limited"
      [] code = 504 -> "gateway_timeout"
      [] code \in {403, 502, 503} -> "failover"
      [] OTHER -> "unknown"

\* variant: the exception is built from the response instead of the query
BadRequestFromResponse(q, data) ==
    Raise("OverpassBadRequest", <<data, ExtractMsgs(data)>>)

\* the 400 branch: the messages of the body and the query given to BadRequest
BadRequest(q, data) == Raise("OverpassBadRequest", <<q, ExtractMsgs(data)>>)

\* variant: the status code is looked at before the remembered URLError
ExhaustedOutcomeStatusFirst(le, lc) ==
    IF lc # << >>
    THEN Raise("OverpassUnknownHTTPStatusCode", <<lc[1]>>)
    ELSE IF le # << >> THEN Raise("URLError", le)
    ELSE Raise("OverpassUnknownHTTPStatusCode", <<0>>)

\* the two raise statements after the endpoint loop
ExhaustedOutcome(le, lc) ==
    IF le # << >>
    THEN Raise("URLError", le)
    ELSE Raise("OverpassUnknownHTTPStatusCode", <<IF lc # << >> THEN lc[1] ELSE 0>>)

ExhaustedLine(le) == IF le # << >> THEN 240 ELSE 241

(***************************************************************************)
(* State                                                                   *)
(***************************************************************************)
VARIABLES
    _servers,    \* self._servers, the endpoint list
    max_tries,   \* self.max_tries
    url,         \* self.url
    pc,          \* "idle", "urlopen" (about to send), "read" (connection open), "done"
    query,       \* the query bytes of the running query
    srv,         \* position of the endpoint loop in _servers (1-based)
    attempt,     \* loop variable of "for attempt in range(self.max_tries)"
    f,           \* the response object of the current attempt
    response,    \* the body read from f, after decompression
    raw,         \* history: the body of the final response as _read_all returned it
    last_code,   \* optional status code
    last_exc,    \* optional URLError
    outcome,     \* how the query ended: the value returned or the exception raised
    exitLine,    \* source line of the return/raise that ended the query
    arg,         \* history: the argument(s) the running call was made with
    reqs,        \* history: endpoint of each request of this query, in order
    sleeps,      \* history: the time.sleep calls of this query, in order
    hist,        \* history: what the earlier attempts on the current endpoint
                 \* produced ("429", "504" or "URLError")
    nErr,        \* history: number of URLErrors caught during this query
    abandoned,   \* history: endpoints left by a 403/502/503 during this query
    conn,        \* history: the connections open when the current attempt began
                 \* and what the attempt did since, in order ("request",
                 \* "open", "close", "sleep")
    _nodes,      \* Result._nodes, the elements in insertion order
    _ways,       \* Result._ways
    _relations,  \* Result._relations
    _bounds,     \* Result._bounds: empty, or the box get_bounds gives back
    owner,       \* a second Result object, the owner of the elements it decoded;
                 \* empty when there is none
    gpc,         \* position of the running Result/Way call: "ready" between
                 \* calls, "query" while its follow-up query is with the api
    op,          \* history: the call last made on the graph, with its arguments
    ret,         \* history: how that call ended (value returned, exception raised)
    sent,        \* history: the queries that call gave to api.query, in order
    first,       \* history: for each kind and id, the element first inserted
    service,     \* the NVDB service: the payload it answers each URL with
    max_pages,   \* argument of _fetch_all_pages
    all_items,   \* local of _fetch_all_pages
    next_url,    \* local: the URL to request next (empty for None)
    page_count,  \* local
    truncated,   \* local
    ppc,         \* position of _fetch_all_pages: "loop" at the head of the
                 \* while loop, "done" after the return, "raised" after an
                 \* exception
    requested    \* history: the URLs requested, in order

graphvars == << _nodes, _ways, _relations, _bounds, owner, gpc, op, ret, sent, first >>

clientvars == << _servers, max_tries, url, pc, query, srv, attempt, f, response, raw,
                 last_code, last_exc, outcome, exitLine, arg, reqs, sleeps, hist,
                 nErr, abandoned, conn >>

pagevars == << service, max_pages, all_items, next_url, page_count, truncated, ppc,
              requested >>

vars == << clientvars, graphvars, pagevars >>

client == << _servers, max_tries >>

\* _fetch_all_pages is not running
NoPages ==
    /\ service = << >>
    /\ max_pages = 0
    /\ all_items = << >>
    /\ next_url = << >>
    /\ page_count = 0
    /\ truncated = FALSE
    /\ ppc = "none"
    /\ requested = << >>

\* no Result object exists
NoGraph ==
    /\ _nodes = << >>
    /\ _ways = << >>
    /\ _relations = << >>
    /\ _bounds = << >>
    /\ owner = << >>
    /\ gpc = "ready"
    /\ op = [name |-> "none"]
    /\ ret = NoOutcome
    /\ sent = << >>
    /\ first = {}

\* Overpass.__init__
Init ==
    /\ \E overpass_server \in PrimaryInputs, fallback_servers \in FallbackInputs :
          _servers = ServerList(overpass_server, fallback_servers)
    /\ \E n \in 0..MaxTries : max_tries = ClampTries(n)
    /\ url = _servers[1]
    /\ pc = "idle"
    /\ arg = [text |-> "q1", bytes |-> TRUE]
    /\ query = Encode(arg)
    /\ srv = 1
    /\ attempt = 0
    /\ f = NoResponse
    /\ response = NoBody
    /\ raw = NoBody
    /\ last_code = << >>
    /\ last_exc = << >>
    /\ outcome = NoOutcome
    /\ exitLine = 0
    /\ reqs = << >>
    /\ sleeps = << >>
    /\ hist = << >>
    /\ nErr = 0
    /\ abandoned = {}
    /\ conn = [open |-> 0, events |-> << >>]
    /\ NoGraph
    /\ NoPages

(***************************************************************************)
(* Control flow of the two nested loops of query                           *)
(***************************************************************************)
\* the query leaves through a return or raise statement
Finish(out, line) ==
    /\ pc' = "done"
    /\ outcome' = out
    /\ exitLine' = line
    /\ UNCHANGED << srv, attempt, url, hist >>

\* the endpoint loop takes its next element, or ends; le and lc are the
\* values last_exc and last_code have at that point
NextServer(le, lc) ==
    IF srv < Len(_servers)
    THEN /\ pc' = "urlopen"
         /\ srv' = srv + 1
         /\ attempt' = 0
         /\ url' = _servers[srv + 1]
         /\ hist' = << >>
         /\ UNCHANGED << outcome, exitLine >>
    ELSE /\ pc' = "done"
         /\ outcome' = ExhaustedOutcome(le, lc)
         /\ exitLine' = ExhaustedLine(le)
         /\ UNCHANGED << srv, attempt, url, hist >>

\* variant: the attempt loop runs once too often
ContinueOffByOne(le, lc, ev) ==
    IF attempt + 1 <= max_tries
    THEN /\ pc' = "urlopen"
         /\ attempt' = attempt + 1
         /\ hist' = Append(hist, ev)
         /\ UNCHANGED << srv, url, outcome, exitLine >>
    ELSE NextServer(le, lc)

\* "continue": the attempt loop takes its next element, or ends; ev is what
\* the finished attempt produced
Continue(le, lc, ev) ==
    IF attempt + 1 < max_tries
    THEN /\ pc' = "urlopen"
         /\ attempt' = attempt + 1
         /\ hist' = Append(hist, ev)
         /\ UNCHANGED << srv, url, outcome, exitLine >>
    ELSE NextServer(le, lc)

Sleep(d) == sleeps' = Append(sleeps, [srv |-> srv, delay |-> d])

\* the connections open after the events es, n being open before them
RECURSIVE OpenAfter(_, _)
OpenAfter(n, es) ==
    IF es = << >> THEN n
    ELSE OpenAfter(CASE Head(es) = "open" -> n + 1
                     [] Head(es) = "close" -> n - 1
                     [] OTHER -> n,
                   Tail(es))

\* a new attempt (or a new query) begins: what is open stays open
Attempt(es) == [open |-> OpenAfter(conn.open, conn.events), events |-> es]

(***************************************************************************)
(* Operations                                                              *)
(***************************************************************************)
\* variant: a query goes on at the endpoint the last one ended on
StartWhereLeft(q) ==
    /\ pc \in {"idle", "done"}
    /\ arg' = q
    /\ query' = Encode(q)
    /\ last_code' = << >>
    /\ last_exc' = << >>
    /\ attempt' = 0
    /\ pc' = "urlopen"
    /\ f' = NoResponse
    /\ response' = NoBody
    /\ raw' = NoBody
    /\ outcome' = NoOutcome
    /\ exitLine' = 0
    /\ reqs' = << >>
    /\ sleeps' = << >>
    /\ hist' = << >>
    /\ nErr' = 0
    /\ abandoned' = {}
    /\ conn' = Attempt(<< >>)
    /\ UNCHANGED << client, srv, url, graphvars, pagevars >>

\* query(q): lines 137-152, up to the first request
Start(q) ==
    /\ pc \in {"idle", "done"}
    /\ arg' = q
    /\ query' = Encode(q)
    /\ last_code' = << >>
    /\ last_exc' = << >>
    /\ srv' = 1
    /\ attempt' = 0
    /\ url' = _servers[1]
    /\ pc' = "urlopen"
    /\ f' = NoResponse
    /\ response' = NoBody
    /\ raw' = NoBody
    /\ outcome' = NoOutcome
    /\ exitLine' = 0
    /\ reqs' = << >>
    /\ sleeps' = << >>
    /\ hist' = << >>
    /\ nErr' = 0
    /\ abandoned' = {}
    /\ conn' = Attempt(<< >>)
    /\ UNCHANGED << client, graphvars, pagevars >>

\* urlopen raises URLError: remember it, sleep, continue
UrlopenError ==
    /\ pc = "urlopen"
    /\ reqs' = Append(reqs, _servers[srv])
    /\ nErr' = nErr + 1
    /\ last_exc' = << URLError(nErr + 1) >>
    /\ Sleep(Backoff(attempt))
    /\ Continue(last_exc', last_code, "URLError")
    /\ conn' = Attempt(<< "request", "sleep" >>)
    /\ UNCHANGED << client, query, f, response, raw, last_code, arg, abandoned,
                    graphvars, pagevars >>

\* urlopen returns a response, or raises HTTPError which is used as one
UrlopenResponse(h) ==
    /\ pc = "urlopen"
    /\ reqs' = Append(reqs, _servers[srv])
    /\ f' = h
    /\ pc' = "read"
    /\ conn' = Attempt(<< "request", "open" >>)
    /\ UNCHANGED << client, url, query, srv, attempt, response, raw, last_code,
                    last_exc, outcome, exitLine, arg, sleeps, hist, nErr,
                    abandoned, graphvars, pagevars >>

\* variant: a failure while reading leaves the connection open
ReadErrorLeavesOpen ==
    /\ pc = "read"
    /\ Finish(Raise("OSError", << >>), 174)
    /\ UNCHANGED << client, query, f, response, raw, last_code, last_exc, arg,
                    reqs, sleeps, nErr, abandoned, conn, graphvars, pagevars >>

\* _read_all raises while reading the body (timeout, connection reset): f is
\* closed by the finally clause and the error leaves query
ReadError ==
    /\ pc = "read"
    /\ Finish(Raise("OSError", << >>), 174)
    /\ conn' = [conn EXCEPT !.events = Append(@, "close")]
    /\ UNCHANGED << client, query, f, response, raw, last_code, last_exc, arg,
                    reqs, sleeps, nErr, abandoned, graphvars, pagevars >>

\* _read_all returns the body: close, gunzip, dispatch on the status code
ReadResponse(body) ==
    /\ pc = "read"
    /\ LET code == f.code
           data == Gunzip(f.cenc, body)
           ct   == Ct(f.ctype)
           head == FirstByte(data)
       IN  /\ last_code' = << code >>
           /\ CASE StatusClass(code) = "decode" ->
                    /\ UNCHANGED << sleeps, abandoned >>
                    /\ IF ct = JsonType THEN Finish(parse_json(data), 196)
                       ELSE IF ct \in XmlTypes THEN Finish(parse_xml(data), 199)
                       ELSE IF head = "{" THEN Finish(parse_json(data), 203)
                       ELSE IF head = "<" THEN Finish(parse_xml(data), 205)
                       ELSE Finish(Raise("OverpassUnknownContentType", <<f.ctype>>), 207)
                [] StatusClass(code) = "bad_request" ->
                    /\ UNCHANGED << sleeps, abandoned >>
                    /\ Finish(BadRequest(query, data), 219)
                [] StatusClass(code) = "rate_limited" ->
                    /\ Sleep(Backoff429(attempt))
                    /\ UNCHANGED abandoned
                    /\ IF attempt + 1 >= max_tries
                       THEN Finish(Raise("OverpassTooManyRequests", << >>), 224)
                       ELSE Continue(last_exc, last_code', "429")
                [] StatusClass(code) = "gateway_timeout" ->
                    /\ Sleep(Backoff(attempt))
                    /\ UNCHANGED abandoned
                    /\ IF attempt + 1 >= max_tries
                       THEN Finish(Raise("OverpassGatewayTimeout", << >>), 230)
                       ELSE Continue(last_exc, last_code', "504")
                [] StatusClass(code) = "failover" ->
                    /\ Sleep(Backoff(attempt))
                    /\ abandoned' = abandoned \cup {_servers[srv]}
                    /\ NextServer(last_exc, last_code')
                [] OTHER ->
                    /\ UNCHANGED << sleeps, abandoned >>
                    /\ Finish(Raise("OverpassUnknownHTTPStatusCode", <<code>>), 237)
           /\ conn' = [conn EXCEPT !.events =
                          @ \o << "close" >> \o
                          (IF sleeps' = sleeps THEN << >> ELSE << "sleep" >>)]
           \* f and response stay what they are when the query ends here
           /\ IF pc' = "done"
              THEN f' = f /\ response' = data /\ raw' = body
              ELSE f' = NoResponse /\ response' = NoBody /\ raw' = NoBody
    /\ UNCHANGED << client, query, last_exc, arg, reqs, nErr, graphvars, pagevars >>

Next ==
    \/ \E q \in QueryInputs : Start(q)
    \/ UrlopenError
    \/ \E c \in StatusCodes : \E h \in HeadersFor(c) : UrlopenResponse(h)
    \/ ReadError
    \/ \E b \in BodiesFor(f.code) : ReadResponse(b)

Spec == Init /\ [][Next]_vars

\* every request is eventually answered or fails, and the caller's loop runs
FairSpec == Spec /\ WF_vars(Next)

(***************************************************************************)
(* The constructor alone: a client is built from every argument            *)
(* combination of CtorInputs.  pc = "new" is the entry of __init__.        *)
(***************************************************************************)
CtorInit ==
    /\ pc = "new"
    /\ arg \in CtorInputs
    /\ _servers = << >>
    /\ max_tries = 0
    /\ url = EmptyUrl
    /\ query = Encode([text |-> "", bytes |-> TRUE])
    /\ srv = 1
    /\ attempt = 0
    /\ f = NoResponse
    /\ response = NoBody
    /\ raw = NoBody
    /\ last_code = << >>
    /\ last_exc = << >>
    /\ outcome = NoOutcome
    /\ exitLine = 0
    /\ reqs = << >>
    /\ sleeps = << >>
    /\ hist = << >>
    /\ nErr = 0
    /\ abandoned = {}
    /\ conn = [open |-> 0, events |-> << >>]
    /\ NoGraph
    /\ NoPages

\* Overpass.__init__, lines 75-101
Construct ==
    /\ pc = "new"
    /\ max_tries' = ClampTries(arg.max_tries)
    /\ _servers' = ServerList(arg.overpass_server, arg.fallback_servers)
    /\ url' = _servers'[1]
    /\ pc' = "idle"
    /\ UNCHANGED << query, srv, attempt, f, response, raw, last_code, last_exc,
                    outcome, exitLine, arg, reqs, sleeps, hist, nErr, abandoned,
                    conn, graphvars, pagevars >>

CtorNext == Construct

CtorSpec == CtorInit /\ [][CtorNext]_vars

(***************************************************************************)
(* The Result graph.  An element is a record: its class (kind), its id     *)
(* (NoId for None), its tags and attributes (tag), the coordinates of a    *)
(* node (lat, lon: empty for None), the node ids of a way (node_ids, and   *)
(* node_ids_none when the attribute is None), the members of a relation,   *)
(* and the Result it was constructed for (result: "self" for the graph     *)
(* of the state, "other" for the second Result object).  A collection      *)
(* (OrderedDict keyed by id) is the sequence of its values in insertion    *)
(* order.  A Result value is the record of its three collections.          *)
(***************************************************************************)
NoId == 0

Element(k, i, t, la, lo, ns, nn, ms, r) ==
    [kind |-> k, id |-> i, tag |-> t, lat |-> la, lon |-> lo, node_ids |-> ns,
     node_ids_none |-> nn, members |-> ms, result |-> r]

\* an element constructed for the graph of the state, without coordinates
Elem(k, i, t, ns, ms) == Element(k, i, t, << >>, << >>, ns, FALSE, ms, "self")

Node(i, t) == Elem("node", i, t, << >>, << >>)

Way(i, ns) == Elem("way", i, "", ns, << >>)

Relation(i, ms) == Elem("relation", i, "", << >>, ms)

\* a relation member: RelationNode, RelationWay or RelationRelation with ref
\* and role
RelationMember(k, r, role) == [kind |-> k, ref |-> r, role |-> role]

Member(k, r) == RelationMember(k, r, "")

\* is_valid_type(element, cls); cls "element" is the base class Element
is_valid_type(element, cls) ==
    (cls = "element" \/ element.kind = cls) /\ element.id # NoId

Ids(coll) == { coll[k].id : k \in 1..Len(coll) }

\* the assignment d[e.id] = e of an OrderedDict: a new key goes to the end, an
\* existing key keeps its position and takes the new value
SetItem(coll, e) ==
    IF e.id \in Ids(coll)
    THEN [k \in 1..Len(coll) |-> IF coll[k].id = e.id THEN e ELSE coll[k]]
    ELSE Append(coll, e)

\* OrderedDict((element.id, element) for element in elements if is_valid_type(element, cls))
RECURSIVE OrderedDictFrom(_, _, _)
OrderedDictFrom(elements, cls, acc) ==
    IF elements = << >> THEN acc
    ELSE LET e == Head(elements)
         IN  OrderedDictFrom(Tail(elements), cls,
                             IF is_valid_type(e, cls) THEN SetItem(acc, e) ELSE acc)

\* Result.__init__(elements)
Result(elements) ==
    [nodes     |-> OrderedDictFrom(elements, "node", << >>),
     ways      |-> OrderedDictFrom(elements, "way", << >>),
     relations |-> OrderedDictFrom(elements, "relation", << >>)]

\* variant: an element under a key that is present replaces the one there
SetDefaultLastWins(coll, e) == SetItem(coll, e)

\* dict.setdefault(e.id, e)
SetDefault(coll, e) == IF e.id \in Ids(coll) THEN coll ELSE Append(coll, e)

\* variant: every element of the other collection is assigned
RECURSIVE ExpandOverwrites(_, _, _)
ExpandOverwrites(own, other, cls) ==
    IF other = << >> THEN own
    ELSE LET e == Head(other)
         IN  ExpandOverwrites(IF is_valid_type(e, cls) THEN SetItem(own, e) ELSE own,
                              Tail(other), cls)

\* the inner loop of expand on one collection
RECURSIVE ExpandCollection(_, _, _)
ExpandCollection(own, other, cls) ==
    IF other = << >> THEN own
    ELSE LET e == Head(other)
         IN  ExpandCollection(IF is_valid_type(e, cls) /\ e.id \notin Ids(own)
                              THEN SetItem(own, e)
                              ELSE own,
                              Tail(other), cls)

\* variant: the collections of the other Result take the place of the own
expandReplaces(g, other) == other

\* Result.expand(other), as a function of the two graphs
expand(g, other) ==
    [nodes     |-> ExpandCollection(g.nodes, other.nodes, "node"),
     ways      |-> ExpandCollection(g.ways, other.ways, "way"),
     relations |-> ExpandCollection(g.relations, other.relations, "relation")]

\* Result.append(element), as a function of the graph
append(g, element) ==
    IF ~is_valid_type(element, "element") THEN g
    ELSE CASE element.kind = "node" -> [g EXCEPT !.nodes = SetDefault(@, element)]
           [] element.kind = "way" -> [g EXCEPT !.ways = SetDefault(@, element)]
           [] element.kind = "relation" -> [g EXCEPT !.relations = SetDefault(@, element)]

\* self._class_collection_map[filter_cls]
Collection(g, cls) ==
    CASE cls = "node" -> g.nodes
      [] cls = "way" -> g.ways
      [] cls = "relation" -> g.relations

\* get_elements(filter_cls, elem_id) for an elem_id that is not None
get_elements(g, cls, elem_id) ==
    SelectSeq(Collection(g, cls), LAMBDA e : e.id = elem_id)

\* the query text of a lazy resolution: "[out:json]; <kind>(<id>); out body;",
\* with "node(w);" after the way statement when the nodes of a way are asked
QueryText(k, i, withNodes) ==
    [format |-> "json", kind |-> k, id |-> i, node_w |-> withNodes]

Return(v) == [kind |-> "return", value |-> v]

DataIncomplete(msg) == Raise("DataIncomplete", <<msg>>)

\* variant: a missing element is always resolved
DisabledNever(cls, resolve_missing) == FALSE

\* "if not resolve_missing" (get_node, Way.get_nodes), "if resolve_missing is
\* False" (get_way, get_relation), for a resolve_missing that is True or False
Disabled(cls, resolve_missing) == ~resolve_missing

\* the message of the DataIncomplete raised when resolve_missing is off
DisabledMsg(cls) ==
    CASE cls = "node" -> "Resolve missing nodes is disabled"
      [] cls = "way" -> "Resolve missing way is disabled"
      [] cls = "relation" -> "Resolve missing relations is disabled"

\* the message of the DataIncomplete raised after the second lookup
UnresolvedMsg(cls) ==
    CASE cls = "node" -> "Unable to resolve all nodes"
      [] cls = "way" -> "Unable to resolve requested way"
      [] cls = "relation" -> "Unable to resolve requested reference"

\* variant: the node id at position p is taken as missing without a lookup
FirstMissingNoLookup(g, node_ids, p) == p

\* position of the first node id of a way, from position p on, that the graph
\* has no node for; Len + 1 when there is none
RECURSIVE FirstMissing(_, _, _)
FirstMissing(g, node_ids, p) ==
    IF p > Len(node_ids) THEN p
    ELSE IF get_elements(g, "node", node_ids[p]) = << >> THEN p
    ELSE FirstMissing(g, node_ids, p + 1)

\* variant: the nodes of the graph whose id the way names, each once and in
\* the order of the graph
NodesOfAsSet(g, node_ids) ==
    SelectSeq(g.nodes, LAMBDA e : \E k \in 1..Len(node_ids) : node_ids[k] = e.id)

\* the list Way.get_nodes returns when every node id is found
NodesOf(g, node_ids) ==
    [k \in 1..Len(node_ids) |-> get_elements(g, "node", node_ids[k])[1]]

(***************************************************************************)
(* Inputs of the graph model                                               *)
(***************************************************************************)
MaxBatch == 2     \* longest element list given to the Result constructor

\* two nodes with id 1 and different content, a node with id 2, a node
\* without id
NodeInputs == { Node(1, "a"), Node(1, "b"), Node(2, "a"), Node(NoId, "a") }

WayInputs == { Way(1, <<1, 2>>), Way(1, <<2, 1, 2>>) }

RelationInputs ==
    { Relation(1, << Member("node", 1) >>),
      Relation(1, << Member("relation", 1), Member("way", 2) >>) }

ElementInputs == NodeInputs \cup WayInputs \cup RelationInputs

Batches == UNION { [1..n -> ElementInputs] : n \in 0..MaxBatch }

\* the Result objects given to expand
ResultInputs == { Result(b) : b \in Batches }

Kinds == {"node", "way", "relation"}

\* the ids looked up
IdInputs == {1, 2}

\* what api.query can give back to a lazy resolution: the value of one of
\* the two decoders, or one of the exceptions query raises
QueryOutcomes ==
    { parse_json(NoBody), parse_xml(NoBody),
      Raise("OverpassTooManyRequests", << >>),
      Raise("URLError", << URLError(1) >>) }

(***************************************************************************)
(* The graph as a state machine: a Result built from a batch, then any     *)
(* sequence of append, expand, get_node / get_way / get_relation (directly *)
(* or through a relation member's resolve) and Way.get_nodes calls.  The   *)
(* api of the Result is an Overpass client built with default arguments.   *)
(* The elements of the batches are constructed with result = the graph     *)
(* itself (result |-> "self").                                             *)
(***************************************************************************)
DefaultMaxTries == 3

G == [nodes |-> _nodes, ways |-> _ways, relations |-> _relations]

SetGraph(g) ==
    /\ _nodes' = g.nodes
    /\ _ways' = g.ways
    /\ _relations' = g.relations

\* element._result / member._result: the Result object a reference names
Deref(r) == IF r = "self" THEN G ELSE owner[1]

\* the Result object a reference names takes the collections g
SetDeref(r, g) ==
    IF r = "self"
    THEN SetGraph(g) /\ owner' = owner
    ELSE owner' = << g >> /\ UNCHANGED << _nodes, _ways, _relations >>

\* the elements a graph holds
Held(g) ==
    { g.nodes[k] : k \in 1..Len(g.nodes) } \cup
    { g.ways[k] : k \in 1..Len(g.ways) } \cup
    { g.relations[k] : k \in 1..Len(g.relations) }

\* the elements first inserted, after the elements es were offered in order
RECURSIVE FirstAfter(_, _)
FirstAfter(fs, es) ==
    IF es = << >> THEN fs
    ELSE LET e == Head(es)
         IN  FirstAfter(IF /\ is_valid_type(e, "element")
                           /\ \A x \in fs : ~(x.kind = e.kind /\ x.id = e.id)
                        THEN fs \cup {e}
                        ELSE fs,
                        Tail(es))

\* the elements of a Result in the order expand offers them
Offered(other) == other.nodes \o other.ways \o other.relations

Op(n, k, i, rm, x) == [name |-> n, kind |-> k, id |-> i, resolve_missing |-> rm, x |-> x]

\* the Overpass client Overpass() in its state after construction
IdleClient ==
    /\ _servers = ServerList(Url("http", "overpass-api.de", FALSE), << >>)
    /\ max_tries = ClampTries(DefaultMaxTries)
    /\ url = _servers[1]
    /\ pc = "idle"
    /\ arg = [text |-> "", bytes |-> TRUE]
    /\ query = Encode(arg)
    /\ srv = 1
    /\ attempt = 0
    /\ f = NoResponse
    /\ response = NoBody
    /\ raw = NoBody
    /\ last_code = << >>
    /\ last_exc = << >>
    /\ outcome = NoOutcome
    /\ exitLine = 0
    /\ reqs = << >>
    /\ sleeps = << >>
    /\ hist = << >>
    /\ nErr = 0
    /\ abandoned = {}
    /\ conn = [open |-> 0, events |-> << >>]

\* Result(elements, api=Overpass())
GraphInit ==
    /\ IdleClient
    /\ NoPages
    /\ \E elements \in Batches :
          /\ _nodes = Result(elements).nodes
          /\ _ways = Result(elements).ways
          /\ _relations = Result(elements).relations
          /\ op = Op("__init__", "", NoId, FALSE, elements)
          /\ first = FirstAfter({}, elements)
    /\ _bounds = << >>
    /\ owner = << >>
    /\ gpc = "ready"
    /\ ret = Return("None")
    /\ sent = << >>

\* Result.append(element)
Append_(element) ==
    /\ gpc = "ready"
    /\ SetGraph(append(G, element))
    /\ first' = FirstAfter(first, <<element>>)
    /\ op' = Op("append", element.kind, element.id, FALSE, element)
    /\ ret' = Return("None")
    /\ sent' = << >>
    /\ UNCHANGED << _bounds, owner, gpc, clientvars, pagevars >>

\* Result.expand(other) with a Result
Expand(other) ==
    /\ gpc = "ready"
    /\ SetGraph(expand(G, other))
    /\ first' = FirstAfter(first, Offered(other))
    /\ op' = Op("expand", "", NoId, FALSE, other)
    /\ ret' = Return("None")
    /\ sent' = << >>
    /\ UNCHANGED << _bounds, owner, gpc, clientvars, pagevars >>

\* Result.expand(other) with something that is no Result
ExpandNoResult ==
    /\ gpc = "ready"
    /\ op' = Op("expand", "", NoId, FALSE, "no Result")
    /\ ret' = Raise("ValueError", << >>)
    /\ sent' = << >>
    /\ UNCHANGED << _nodes, _ways, _relations, _bounds, owner, first, gpc, clientvars, pagevars >>

\* variant: with resolve_missing the follow-up query is sent whether or not
\* the element is there
GetQueriesAgain(name, r, cls, elem_id, resolve_missing) ==
    /\ gpc = "ready"
    /\ op' = Op(name, cls, elem_id, resolve_missing, r)
    /\ LET found == get_elements(Deref(r), cls, elem_id)
       IN  IF found # << >> /\ ~resolve_missing
           THEN /\ ret' = Return(found[1])
                /\ sent' = << >>
                /\ gpc' = "ready"
           ELSE IF Disabled(cls, resolve_missing)
           THEN /\ ret' = DataIncomplete(DisabledMsg(cls))
                /\ sent' = << >>
                /\ gpc' = "ready"
           ELSE /\ ret' = NoOutcome
                /\ sent' = << QueryText(cls, elem_id, FALSE) >>
                /\ gpc' = "query"
    /\ UNCHANGED << _nodes, _ways, _relations, _bounds, owner, first, clientvars, pagevars >>

\* get_node / get_way / get_relation of the Result r names, called directly
\* (name "get") or by the resolve of a relation member of that kind and ref
\* whose _result is r (name "resolve"), up to the return, the raise or the
\* call of api.query
Get(name, r, cls, elem_id, resolve_missing) ==
    /\ gpc = "ready"
    /\ op' = Op(name, cls, elem_id, resolve_missing, r)
    /\ LET found == get_elements(Deref(r), cls, elem_id)
       IN  IF found # << >>
           THEN /\ ret' = Return(found[1])
                /\ sent' = << >>
                /\ gpc' = "ready"
           ELSE IF Disabled(cls, resolve_missing)
           THEN /\ ret' = DataIncomplete(DisabledMsg(cls))
                /\ sent' = << >>
                /\ gpc' = "ready"
           ELSE /\ ret' = NoOutcome
                /\ sent' = << QueryText(cls, elem_id, FALSE) >>
                /\ gpc' = "query"
    /\ UNCHANGED << _nodes, _ways, _relations, _bounds, owner, first, clientvars, pagevars >>

\* Way.get_nodes(resolve_missing) on a way of the graph, up to the return, the
\* raise or the call of api.query; the node ids are looked up in the Result
\* the way was constructed for (a _node_ids that is None cannot be iterated)
GetNodes(way, resolve_missing) ==
    /\ gpc = "ready"
    /\ \E k \in 1..Len(_ways) : _ways[k] = way
    /\ op' = Op("get_nodes", "way", way.id, resolve_missing, way)
    /\ LET g == Deref(way.result)
           p == FirstMissing(g, way.node_ids, 1)
       IN  IF way.node_ids_none
           THEN /\ ret' = Raise("TypeError", << >>)
                /\ sent' = << >>
                /\ gpc' = "ready"
           ELSE IF p > Len(way.node_ids)
           THEN /\ ret' = Return(NodesOf(g, way.node_ids))
                /\ sent' = << >>
                /\ gpc' = "ready"
           ELSE IF Disabled("node", resolve_missing)
           THEN /\ ret' = DataIncomplete(DisabledMsg("node"))
                /\ sent' = << >>
                /\ gpc' = "ready"
           ELSE /\ ret' = NoOutcome
                /\ sent' = << QueryText("way", way.id, TRUE) >>
                /\ gpc' = "query"
    /\ UNCHANGED << _nodes, _ways, _relations, _bounds, owner, first, clientvars, pagevars >>

\* variant: after the reply the members of the element asked for are resolved
\* in turn, each by a query of its own
ReplyResolvesMembers(out) ==
    /\ gpc = "query"
    /\ gpc' = "query"
    /\ ret' = NoOutcome
    /\ sent' = Append(sent, QueryText("relation", op.id, FALSE))
    /\ UNCHANGED << _nodes, _ways, _relations, _bounds, owner, first, op, clientvars, pagevars >>

\* variant: a reply that fails has already put the node it asked for into the
\* graph
ReplyKeepsPartialMerge(out) ==
    /\ gpc = "query"
    /\ gpc' = "ready"
    /\ ret' = out
    /\ SetGraph(IF out.kind = "raise" THEN append(G, Node(2, "a")) ELSE G)
    /\ UNCHANGED << _bounds, owner, first, op, sent, clientvars, pagevars >>

\* the Result the running call looks up and merges into
Target == IF op.name = "get_nodes" THEN op.x.result ELSE op.x

\* api.query ends: an exception leaves the call; a Result is merged with
\* expand into the Result the call works on and the lookup is made once more
\* (get_nodes goes on with its loop, and a node id still missing is fatal)
Reply(out) ==
    /\ gpc = "query"
    /\ gpc' = "ready"
    /\ IF out.kind = "raise"
       THEN /\ ret' = out
            /\ UNCHANGED << _nodes, _ways, _relations, owner, first >>
       ELSE LET g == expand(Deref(Target), out.value)
            IN  /\ SetDeref(Target, g)
                /\ first' = IF Target = "self"
                             THEN FirstAfter(first, Offered(out.value))
                             ELSE first
                /\ IF op.name = "get_nodes"
                   THEN ret' = IF FirstMissing(g, op.x.node_ids, 1) > Len(op.x.node_ids)
                               THEN Return(NodesOf(g, op.x.node_ids))
                               ELSE DataIncomplete("Unable to resolve all nodes")
                   ELSE ret' = IF get_elements(g, op.kind, op.id) # << >>
                               THEN Return(get_elements(g, op.kind, op.id)[1])
                               ELSE DataIncomplete(UnresolvedMsg(op.kind))
    /\ UNCHANGED << _bounds, op, sent, clientvars, pagevars >>

GraphNext ==
    \/ \E e \in ElementInputs : Append_(e)
    \/ \E other \in ResultInputs : Expand(other)
    \/ ExpandNoResult
    \/ \E n \in {"get", "resolve"}, k \in Kinds, i \in IdInputs, rm \in BOOLEAN :
          Get(n, "self", k, i, rm)
    \/ \E w \in WayInputs, rm \in BOOLEAN : GetNodes(w, rm)
    \/ \E out \in QueryOutcomes : Reply(out)

GraphSpec == GraphInit /\ [][GraphNext]_vars

(***************************************************************************)
(* The decoders.  A document is the list of its element records in         *)
(* document order and, for XML, the attributes of its bounds element.  A   *)
(* record is a JSON object of the "elements" array or an XML element: its  *)
(* type ("type" value / tag name), id, coordinates, tags, node references  *)
(* ("nodes" array, absent or a list / nd children) and members, and for    *)
(* XML its depth below the root (1 for a child of the root).               *)
(***************************************************************************)
Rec(t, i, la, lo, tg, ns, ms, d) ==
    [type |-> t, id |-> i, lat |-> la, lon |-> lo, tags |-> tg, nodes |-> ns,
     members |-> ms, depth |-> d]

\* a member record: "type", "ref", "role"
MemberRec(t, r, role) == [type |-> t, ref |-> r, role |-> role]

Doc(es, b) == [elements |-> es, bounds |-> b]

\* a coordinate as JSON gives it (a float) and as Decimal(text) of XML
Float(v) == [num |-> "float", v |-> v]

Decimal(v) == [num |-> "Decimal", v |-> v]

\* str.lower() on the type names of the inputs
Lower(t) == IF t = "Node" THEN "node" ELSE t

\* variant: a member of any type is built
supported_members_any == {"node", "way", "relation", "area"}

\* variant: the type of a record is never looked at
WrongTypeNever(declared, cls) == FALSE

\* the test "data.get("type") != cls._type_value" / "child.tag.lower() !=
\* cls._type_value" that opens every from_json and from_xml
WrongType(declared, cls) == declared # cls

ElementDataWrongType(type_expected, type_provided) ==
    Raise("ElementDataWrongType", << type_expected, type_provided >>)

\* the nd references of an XML way: a "nodes" array written as nd children
Nds(rec) == IF rec.nodes = << >> THEN << >> ELSE rec.nodes[1]

\* the tag, nd and member children of an XML element, counted
Children(rec) ==
    Len(Nds(rec)) + Len(rec.members) + (IF rec.tags = "" THEN 0 ELSE 1)

\* an XML element as the parser holds it when only its first n children (nd
\* and member children come before the tag children) have been parsed
Seen(rec, n) ==
    IF n >= Children(rec) THEN rec
    ELSE [rec EXCEPT !.tags = "",
                     !.nodes = IF Nds(rec) = << >> THEN << >>
                               ELSE << SubSeq(Nds(rec), 1, IF n < Len(Nds(rec)) THEN n ELSE Len(Nds(rec))) >>,
                     !.members = SubSeq(rec.members, 1, IF n < Len(rec.members) THEN n ELSE Len(rec.members))]

\* the text of a numeric attribute that is no number ("50 50"), as the pair
\* of its parts
Malformed == << 50, 50 >>

\* what stops from_xml of the class cls on an element whose tag matches:
\* the loop over the children raises ValueError at an nd child without ref
\* (ways) or at a tag child without k, then Decimal(lat) / Decimal(lon)
\* raises on a text that is no number (nodes); empty when nothing does
XmlFault(child, cls) ==
    IF cls = "way" /\ \E k \in 1..Len(Nds(child)) : Nds(child)[k] = NoId
    THEN << Raise("ValueError", << "Unable to find required ref value." >>) >>
    ELSE IF child.tags = "nokey"
    THEN << Raise("ValueError", << "Tag without name/key." >>) >>
    ELSE IF cls = "node" /\ (child.lat = Malformed \/ child.lon = Malformed)
    THEN << Raise("InvalidOperation", << >>) >>
    ELSE << >>

\* a record a JSON document can hold: "tags" is an object, so every tag has
\* a key, and the numbers are numbers
JsonRecord(data) ==
    data.tags # "nokey" /\ data.lat # Malformed /\ data.lon # Malformed

\* Node.from_json(data, result)
Node_from_json(data, result) ==
    IF WrongType(data.type, "node") THEN ElementDataWrongType("node", data.type)
    ELSE Return(Element("node", data.id, data.tags,
                        IF data.lat = << >> THEN << >> ELSE << Float(data.lat[1]) >>,
                        IF data.lon = << >> THEN << >> ELSE << Float(data.lon[1]) >>,
                        << >>, FALSE, << >>, result))

\* Node.from_xml(child, result)
Node_from_xml(child, result) ==
    IF WrongType(Lower(child.type), "node")
    THEN ElementDataWrongType("node", Lower(child.type))
    ELSE IF XmlFault(child, "node") # << >> THEN XmlFault(child, "node")[1]
    ELSE Return(Element("node", child.id, child.tags,
                        IF child.lat = << >> THEN << >> ELSE << Decimal(child.lat[1]) >>,
                        IF child.lon = << >> THEN << >> ELSE << Decimal(child.lon[1]) >>,
                        << >>, FALSE, << >>, result))

\* Way.from_json(data, result): node_ids = data.get("nodes")
Way_from_json(data, result) ==
    IF WrongType(data.type, "way") THEN ElementDataWrongType("way", data.type)
    ELSE Return(Element("way", data.id, data.tags, << >>, << >>,
                        Nds(data), data.nodes = << >>, << >>, result))

\* Way.from_xml(child, result): node_ids = the ref of every nd child
Way_from_xml(child, result) ==
    IF WrongType(Lower(child.type), "way")
    THEN ElementDataWrongType("way", Lower(child.type))
    ELSE IF XmlFault(child, "way") # << >> THEN XmlFault(child, "way")[1]
    ELSE Return(Element("way", child.id, child.tags, << >>, << >>,
                        Nds(child), FALSE, << >>, result))

supported_members == {"node", "way", "relation"}

\* RelationMember.from_json as the class with _type_value cls
RelationMember_from_json(cls, data) ==
    IF WrongType(data.type, cls) THEN ElementDataWrongType(cls, data.type)
    ELSE Return(RelationMember(cls, data.ref, data.role))

\* RelationMember.from_xml as the class with _type_value cls; the exception
\* names the tag of the child, which is "member"
RelationMember_from_xml(cls, child) ==
    IF WrongType(child.type, cls) THEN ElementDataWrongType(cls, "member")
    ELSE Return(RelationMember(cls, child.ref, child.role))

\* the members loop of Relation.from_json: a member whose type is the
\* _type_value of a supported class is built by that class, any other is
\* left out
MembersFromJson(ms) ==
    LET known == SelectSeq(ms, LAMBDA m : m.type \in supported_members)
    IN  [k \in 1..Len(known) |-> RelationMember_from_json(known[k].type, known[k]).value]

\* the same loop of Relation.from_xml over the member children
MembersFromXml(ms) ==
    LET known == SelectSeq(ms, LAMBDA m : m.type \in supported_members)
    IN  [k \in 1..Len(known) |-> RelationMember_from_xml(known[k].type, known[k]).value]

\* Relation.from_json(data, result)
Relation_from_json(data, result) ==
    IF WrongType(data.type, "relation") THEN ElementDataWrongType("relation", data.type)
    ELSE Return(Element("relation", data.id, data.tags, << >>, << >>,
                        << >>, FALSE, MembersFromJson(data.members), result))

\* Relation.from_xml(child, result)
Relation_from_xml(child, result) ==
    IF WrongType(Lower(child.type), "relation")
    THEN ElementDataWrongType("relation", Lower(child.type))
    ELSE IF XmlFault(child, "relation") # << >> THEN XmlFault(child, "relation")[1]
    ELSE Return(Element("relation", child.id, child.tags, << >>, << >>,
                        << >>, FALSE, MembersFromXml(child.members), result))

\* elem_cls.from_json / elem_cls.from_xml for the class named cls
from_json(cls, data, result) ==
    CASE cls = "node" -> Node_from_json(data, result)
      [] cls = "way" -> Way_from_json(data, result)
      [] cls = "relation" -> Relation_from_json(data, result)

from_xml(cls, child, result) ==
    CASE cls = "node" -> Node_from_xml(child, result)
      [] cls = "way" -> Way_from_xml(child, result)
      [] cls = "relation" -> Relation_from_xml(child, result)

\* a decoder's way through the records: out is Return(graph) so far, or the
\* exception that ended the decoding
RECURSIVE JsonPass(_, _, _, _)
JsonPass(elements, cls, result, out) ==
    IF elements = << >> \/ out.kind = "raise" THEN out
    ELSE LET element == Head(elements)
             e == from_json(cls, element, result)
         IN  JsonPass(Tail(elements), cls, result,
                      IF Lower(element.type) # cls THEN out
                      ELSE IF e.kind = "raise" THEN e
                      ELSE Return(append(out.value, e.value)))

\* Result.from_json(data): one pass over data["elements"] for each of Node,
\* Way, Relation, into a new Result
Result_from_json(data, result) ==
    JsonPass(data.elements, "relation", result,
        JsonPass(data.elements, "way", result,
            JsonPass(data.elements, "node", result, Return(Result(<< >>)))))

\* one pass of the whole-document parser over the children of the root
RECURSIVE XmlPass(_, _, _, _)
XmlPass(children, cls, result, out) ==
    IF children = << >> \/ out.kind = "raise" THEN out
    ELSE LET child == Head(children)
             e == from_xml(cls, child, result)
         IN  XmlPass(Tail(children), cls, result,
                     IF child.depth # 1 \/ Lower(child.type) # cls THEN out
                     ELSE IF e.kind = "raise" THEN e
                     ELSE Return(append(out.value, e.value)))

\* the loop of the incremental parser over the start events, in document
\* order: the element at position cut is built when only have of its
\* children have been parsed, every other element when it is complete
RECURSIVE IterPass(_, _, _, _, _, _)
IterPass(children, k, cut, have, result, out) ==
    IF k > Len(children) \/ out.kind = "raise" THEN out
    ELSE LET child == IF k = cut THEN Seen(children[k], have) ELSE children[k]
             cls == Lower(child.type)
             e == from_xml(cls, child, result)
         IN  IterPass(children, k + 1, cut, have, result,
                      IF cls \notin {"node", "way", "relation"} THEN out
                      ELSE IF e.kind = "raise" THEN e
                      ELSE Return(append(out.value, e.value)))

\* Result.from_xml(data, iterparse): the elements of the new Result
Result_from_xml(data, iterparse, cut, have, result) ==
    IF iterparse
    THEN IterPass(data.elements, 1, cut, have, result, Return(Result(<< >>)))
    ELSE XmlPass(data.elements, "relation", result,
             XmlPass(data.elements, "way", result,
                 XmlPass(data.elements, "node", result, Return(Result(<< >>)))))

\* what from_xml leaves in _bounds: the attributes of the bounds element as
\* floats when the incremental parser met one, else the empty dict
BoundsFromXml(data, iterparse) ==
    IF iterparse /\ data.bounds # << >>
    THEN << [minlon |-> Float(data.bounds[1].minlon), maxlon |-> Float(data.bounds[1].maxlon),
             minlat |-> Float(data.bounds[1].minlat), maxlat |-> Float(data.bounds[1].maxlat)] >>
    ELSE << >>

\* min and max of a set of numbers
MinOf(S) == CHOOSE x \in S : \A y \in S : x <= y

MaxOf(S) == CHOOSE x \in S : \A y \in S : y <= x

\* Result.get_bounds as a function of the collections and of _bounds, for
\* nodes that have coordinates: the dict held when it is not empty, else the
\* box of the nodes (zip(*[]) of no node cannot be unpacked: ValueError)
get_bounds(g, b) ==
    IF b # << >> THEN Return(b[1])
    ELSE IF g.nodes = << >> THEN Raise("ValueError", << >>)
    ELSE LET lons == { g.nodes[k].lon[1].v : k \in 1..Len(g.nodes) }
             lats == { g.nodes[k].lat[1].v : k \in 1..Len(g.nodes) }
         IN  Return([minlon |-> Float(MinOf(lons)), maxlon |-> Float(MaxOf(lons)),
                     minlat |-> Float(MinOf(lats)), maxlat |-> Float(MaxOf(lats))])

\* Result.get_bounds()
GetBounds ==
    /\ gpc = "ready"
    /\ op' = Op("get_bounds", "", NoId, FALSE, "")
    /\ ret' = get_bounds(G, _bounds)
    /\ _bounds' = IF ret'.kind = "return" THEN << ret'.value >> ELSE _bounds
    /\ sent' = << >>
    /\ UNCHANGED << _nodes, _ways, _relations, owner, first, gpc, clientvars, pagevars >>

(***************************************************************************)
(* Inputs of the decoders                                                  *)
(***************************************************************************)
MaxDoc == 2       \* most element records in a document

NodeRec(t, i, la, lo, tg, d) == Rec(t, i, << la >>, << lo >>, tg, << >>, << >>, d)

\* node 1 at lon 10, lat 50 with a tag; node 2 at lon 12, lat 52, as a child
\* of the root and one level deeper; way 1 with the references 1, 2 and a
\* tag, and way 1 without references ("nodes" absent, no nd child); relation
\* 1 with itself, an element of an unsupported type and way 1 as members; a
\* node whose type is spelled "Node"; for XML a node with a tag child without
\* k, a node whose lat is no number and a way whose second nd child has no ref
RecordInputs ==
    { NodeRec("node", 1, 50, 10, "t", 1),
      NodeRec("node", 2, 52, 12, "", 1),
      NodeRec("node", 2, 52, 12, "", 2),
      Rec("way", 1, << >>, << >>, "t", << <<1, 2>> >>, << >>, 1),
      Rec("way", 1, << >>, << >>, "", << >>, << >>, 1),
      Rec("relation", 1, << >>, << >>, "", << >>,
          << MemberRec("relation", 1, "r"), MemberRec("area", 3, ""),
             MemberRec("way", 1, "") >>, 1),
      NodeRec("Node", 3, 50, 10, "", 1),
      NodeRec("node", 4, 50, 10, "nokey", 1),
      Rec("node", 5, Malformed, << 10 >>, "", << >>, << >>, 1),
      Rec("way", 2, << >>, << >>, "", << <<1, NoId>> >>, << >>, 1) }

\* no bounds element, or one that names a box
BoundsInputs ==
    { << >>, << [minlon |-> 0, maxlon |-> 20, minlat |-> 40, maxlat |-> 60] >> }

Documents ==
    { Doc(es, b) : es \in UNION { [1..n -> RecordInputs] : n \in 0..MaxDoc },
                   b \in BoundsInputs }

MemberRecInputs ==
    { MemberRec("relation", 1, "r"), MemberRec("way", 1, ""), MemberRec("area", 3, "") }

(***************************************************************************)
(* The decoders as a state machine: no Result exists at first; one is      *)
(* built by Result(), Result.from_json or Result.from_xml (whole document  *)
(* or incremental), and get_bounds is called on it; or the from_json /     *)
(* from_xml of an element or member class is called on a single record.    *)
(***************************************************************************)
DecodeOp(n, mode, cut, have, x) ==
    [name |-> n, kind |-> mode, id |-> cut, resolve_missing |-> FALSE, x |-> x,
     have |-> have]

DecodeInit ==
    /\ IdleClient
    /\ NoPages
    /\ _nodes = << >>
    /\ _ways = << >>
    /\ _relations = << >>
    /\ _bounds = << >>
    /\ owner = << >>
    /\ gpc = "new"
    /\ op = DecodeOp("none", "", 0, 0, "")
    /\ ret = NoOutcome
    /\ sent = << >>
    /\ first = {}

\* the new Result out.value, with the dict b in _bounds, becomes the graph of
\* the state; an exception leaves no Result and ends the run
Built(out, b) ==
    /\ sent' = << >>
    /\ IF out.kind = "raise"
       THEN /\ ret' = out
            /\ gpc' = "done"
            /\ UNCHANGED << _nodes, _ways, _relations, _bounds, first >>
       ELSE /\ ret' = Return("Result")
            /\ SetGraph(out.value)
            /\ _bounds' = b
            /\ first' = Held(out.value)
            /\ gpc' = "ready"
    /\ UNCHANGED << owner, clientvars, pagevars >>

\* Result()
New ==
    /\ gpc = "new"
    /\ op' = DecodeOp("__init__", "", 0, 0, << >>)
    /\ Built(Return(Result(<< >>)), << >>)

\* Result.from_json(data)
FromJson(data) ==
    /\ gpc = "new"
    /\ \A k \in 1..Len(data.elements) : JsonRecord(data.elements[k])
    /\ op' = DecodeOp("from_json", "", 0, 0, data)
    /\ Built(Result_from_json(data, "self"), << >>)

\* Result.from_xml(data, iterparse)
FromXml(data, iterparse, cut, have) ==
    /\ gpc = "new"
    /\ op' = DecodeOp("from_xml", IF iterparse THEN "iterparse" ELSE "whole", cut, have, data)
    /\ Built(Result_from_xml(data, iterparse, cut, have, "self"),
             BoundsFromXml(data, iterparse))

\* Node / Way / Relation .from_json(rec) and .from_xml(rec), called alone
\* instead of building a Result
ElementFrom(format, cls, rec) ==
    /\ gpc = "new"
    /\ format = "from_json" => JsonRecord(rec)
    /\ gpc' = "done"
    /\ op' = DecodeOp(format, cls, 0, 0, rec)
    /\ ret' = IF format = "from_json" THEN from_json(cls, rec, "self")
              ELSE from_xml(cls, rec, "self")
    /\ UNCHANGED << _nodes, _ways, _relations, _bounds, owner, sent, first, clientvars, pagevars >>

\* RelationNode / RelationWay / RelationRelation .from_json(rec) and
\* .from_xml(rec), called alone instead of building a Result
MemberFrom(format, cls, rec) ==
    /\ gpc = "new"
    /\ gpc' = "done"
    /\ op' = DecodeOp(format, "member " \o cls, 0, 0, rec)
    /\ ret' = IF format = "from_json" THEN RelationMember_from_json(cls, rec)
              ELSE RelationMember_from_xml(cls, rec)
    /\ UNCHANGED << _nodes, _ways, _relations, _bounds, owner, sent, first, clientvars, pagevars >>

\* the element that is built before its children are complete (0: none) and
\* the number of its children parsed by then; the whole-document parser
\* sees every element complete
Cuts(data, iterparse) == IF iterparse THEN 0..Len(data.elements) ELSE {0}

Haves(cut) == IF cut = 0 THEN {0} ELSE 0..1

Formats == {"from_json", "from_xml"}

DecodeNext ==
    \/ New
    \/ \E data \in Documents : FromJson(data)
    \/ \E data \in Documents, iterparse \in BOOLEAN :
          \E cut \in Cuts(data, iterparse) : \E have \in Haves(cut) :
              FromXml(data, iterparse, cut, have)
    \/ GetBounds
    \/ \E format \in Formats, cls \in Kinds, rec \in RecordInputs :
          ElementFrom(format, cls, rec)
    \/ \E format \in Formats, cls \in Kinds, rec \in MemberRecInputs :
          MemberFrom(format, cls, rec)

DecodeSpec == DecodeInit /\ [][DecodeNext]_vars

(***************************************************************************)
(* Two Results side by side.  G is the value of Result.from_json on one    *)
(* document and a second Result H, the value of Result.from_json on        *)
(* another, is held in owner: the elements of G name G in _result, those   *)
(* of H name H.  Every operation of a Result is then called on G: append   *)
(* (of a node built for H), expand(H), the three accessors, resolve on a   *)
(* member of a relation G holds, get_nodes on a way G holds, get_bounds.   *)
(***************************************************************************)
\* the documents G is read from: nothing; the nodes 1 and 2; the nodes, the
\* way 1 over them and the relation 1
OwnDocuments ==
    { Doc(<< >>, << >>),
      Doc(<< NodeRec("node", 1, 50, 10, "t", 1), NodeRec("node", 2, 52, 12, "", 1) >>, << >>),
      Doc(<< NodeRec("node", 1, 50, 10, "t", 1), NodeRec("node", 2, 52, 12, "", 1),
             Rec("way", 1, << >>, << >>, "t", << <<1, 2>> >>, << >>, 1),
             Rec("relation", 1, << >>, << >>, "", << >>,
                 << MemberRec("relation", 1, "r"), MemberRec("way", 1, ""),
                    MemberRec("area", 3, "") >>, 1) >>, << >>) }

\* the documents H is read from: the way 1 alone; the relation 1 and the
\* node 2; the way 1 and the node 1
OtherDocuments ==
    { Doc(<< Rec("way", 1, << >>, << >>, "t", << <<1, 2>> >>, << >>, 1) >>, << >>),
      Doc(<< Rec("relation", 1, << >>, << >>, "", << >>,
                 << MemberRec("relation", 1, "r"), MemberRec("way", 1, ""),
                    MemberRec("area", 3, "") >>, 1),
             NodeRec("node", 2, 52, 12, "", 1) >>, << >>),
      Doc(<< Rec("way", 1, << >>, << >>, "t", << <<1, 2>> >>, << >>, 1),
             NodeRec("node", 1, 50, 10, "t", 1) >>, << >>) }

\* the nodes appended: node 3 at lon 30, lat 70 and node 1 again, built for H
AppendInputs ==
    { Node_from_json(NodeRec("node", 3, 70, 30, "", 1), "other").value,
      Node_from_json(NodeRec("node", 1, 50, 10, "t", 1), "other").value }

\* G = Result.from_json(own), H = Result.from_json(other)
PairInit ==
    /\ IdleClient
    /\ NoPages
    /\ \E own \in OwnDocuments, other \in OtherDocuments :
          /\ _nodes = Result_from_json(own, "self").value.nodes
          /\ _ways = Result_from_json(own, "self").value.ways
          /\ _relations = Result_from_json(own, "self").value.relations
          /\ first = Held(Result_from_json(own, "self").value)
          /\ owner = << Result_from_json(other, "other").value >>
          /\ op = Op("from_json", "", NoId, FALSE, own)
    /\ _bounds = << >>
    /\ gpc = "ready"
    /\ ret = Return("Result")
    /\ sent = << >>

\* G.expand(H)
ExpandOwner == Expand(owner[1])

\* member.resolve(resolve_missing) on the m-th member of the k-th relation
\* of G: the accessor of member._result, the Result the relation was built
\* for
Resolve(k, m, resolve_missing) ==
    /\ k <= Len(_relations)
    /\ m <= Len(_relations[k].members)
    /\ Get("resolve", _relations[k].result, _relations[k].members[m].kind,
           _relations[k].members[m].ref, resolve_missing)

\* way.get_nodes(resolve_missing) on the k-th way of G
GetNodesOf(k, resolve_missing) ==
    /\ k <= Len(_ways)
    /\ GetNodes(_ways[k], resolve_missing)

PairNext ==
    \/ \E e \in AppendInputs : Append_(e)
    \/ ExpandOwner
    \/ ExpandNoResult
    \/ \E k \in Kinds, i \in IdInputs, rm \in BOOLEAN : Get("get", "self", k, i, rm)
    \/ \E k \in 1..1, m \in 1..2, rm \in BOOLEAN : Resolve(k, m, rm)
    \/ \E k \in 1..1, rm \in BOOLEAN : GetNodesOf(k, rm)
    \/ \E out \in QueryOutcomes : Reply(out)
    \/ GetBounds

PairSpec == PairInit /\ [][PairNext]_vars

(***************************************************************************)
(* operators/io_import_nvdb.py: _fetch_all_pages.  The service answers a   *)
(* URL with a JSON payload.  A payload is a record: whether it is a JSON   *)
(* object, the value under each of the item keys (a list, or empty for a   *)
(* missing key or a value that is no list) and metadata.neste.href (empty  *)
(* for None or a missing or non-object metadata / neste).                  *)
(***************************************************************************)
MaxPages == 3     \* largest max_pages argument

NVDB_ITEM_KEYS == << "segmenter", "vegnett", "objekter" >>

\* lines 145-155: nothing for a payload that is no object, else the lists
\* under the item keys, in the order of the keys
_collect_items(payload) ==
    LET ItemsAt(key) == IF payload[key] = << >> THEN << >> ELSE payload[key][1]
    IN  IF ~payload.dict THEN << >>
        ELSE ItemsAt(NVDB_ITEM_KEYS[1]) \o ItemsAt(NVDB_ITEM_KEYS[2])
             \o ItemsAt(NVDB_ITEM_KEYS[3])

\* "while next_url": None and the empty string end the loop
Truthy(u) == u # << >> /\ u[1] # ""

\* _fetch_all_pages(base_url, params, headers, max_pages=n), lines 160-163.
\* The first URL (base_url + path + parameters) is u0.  The service answers
\* each URL with: a page with one item that links to u1; a page with items
\* under two keys that links to u2; a last page; a payload that is no
\* object (a list, a number); or a page whose link is the empty string.
PageInit ==
    /\ IdleClient
    /\ NoGraph
    /\ service \in
         [ {"u0", "u1", "u2"} ->
           { [dict |-> TRUE, segmenter |-> << <<"a">> >>, vegnett |-> << >>,
              objekter |-> << >>, href |-> << "u1" >>],
             [dict |-> TRUE, segmenter |-> << >>, vegnett |-> << <<"c">> >>,
              objekter |-> << <<"b1", "b2">> >>, href |-> << "u2" >>],
             [dict |-> TRUE, segmenter |-> << <<"d">> >>, vegnett |-> << >>,
              objekter |-> << >>, href |-> << >>],
             [dict |-> FALSE, segmenter |-> << >>, vegnett |-> << >>,
              objekter |-> << >>, href |-> << >>],
             [dict |-> TRUE, segmenter |-> << <<"e">> >>, vegnett |-> << >>,
              objekter |-> << >>, href |-> << "" >>] } ]
    /\ max_pages \in 1..MaxPages
    /\ all_items = << >>
    /\ next_url = << "u0" >>
    /\ page_count = 0
    /\ truncated = FALSE
    /\ ppc = "loop"
    /\ requested = << >>

\* one iteration of the loop: the page is requested, its items are added
\* and its next link is taken (None unless the payload is an object with
\* metadata.neste.href)
FetchPage ==
    /\ ppc = "loop"
    /\ Truthy(next_url)
    /\ page_count < max_pages
    /\ page_count' = page_count + 1
    /\ requested' = Append(requested, next_url[1])
    /\ all_items' = all_items \o _collect_items(service[next_url[1]])
    /\ next_url' = IF service[next_url[1]].dict THEN service[next_url[1]].href
                   ELSE << >>
    /\ UNCHANGED << service, max_pages, truncated, ppc, clientvars, graphvars >>

\* urlopen, resp.read or json.loads raises: the exception leaves the function
FetchFails ==
    /\ ppc = "loop"
    /\ Truthy(next_url)
    /\ page_count < max_pages
    /\ page_count' = page_count + 1
    /\ requested' = Append(requested, next_url[1])
    /\ ppc' = "raised"
    /\ UNCHANGED << service, max_pages, all_items, next_url, truncated, clientvars,
                    graphvars >>

\* variant: the break at max_pages does not set the flag
LeaveUnflagged ==
    /\ ppc = "loop"
    /\ ~Truthy(next_url) \/ page_count >= max_pages
    /\ truncated' = FALSE
    /\ ppc' = "done"
    /\ UNCHANGED << service, max_pages, all_items, next_url, page_count, requested,
                    clientvars, graphvars >>

\* the loop ends, by its condition or by the break at max_pages, and the
\* function returns all_items, page_count, truncated
Leave ==
    /\ ppc = "loop"
    /\ ~Truthy(next_url) \/ page_count >= max_pages
    /\ truncated' = Truthy(next_url)
    /\ ppc' = "done"
    /\ UNCHANGED << service, max_pages, all_items, next_url, page_count, requested,
                    clientvars, graphvars >>

PageNext == FetchPage \/ FetchFails \/ Leave

PageSpec == PageInit /\ [][PageNext]_vars

(***************************************************************************)
(* Vocabulary of the properties                                            *)
(***************************************************************************)
\* the envelope of the nodes of g as get_bounds gives it: the smallest and
\* largest lon and lat of the nodes, or ValueError without nodes
Envelope(g) ==
    IF g.nodes = << >> THEN Raise("ValueError", << >>)
    ELSE LET lons == { g.nodes[k].lon[1].v : k \in 1..Len(g.nodes) }
             lats == { g.nodes[k].lat[1].v : k \in 1..Len(g.nodes) }
         IN  Return([minlon |-> Float(MinOf(lons)), maxlon |-> Float(MaxOf(lons)),
                     minlat |-> Float(MinOf(lats)), maxlat |-> Float(MaxOf(lats))])

\* the (kind, id) pairs of the elements a graph holds
Pairs(g) == { << e.kind, e.id >> : e \in Held(g) }

\* this step is the status dispatch of a response whose body was read
Dispatches == pc = "read" /\ exitLine' # 174

\* this step is the failure of _read_all
ReadFails == pc = "read" /\ exitLine' = 174

\* this step sends a request
Requests == pc = "urlopen"

\* this step is the entry of a new call of query
Starts == pc \in {"idle", "done"} /\ pc' = "urlopen"

\* this step catches a URLError raised by urlopen
ConnectFails == pc = "urlopen" /\ nErr' = nErr + 1

Ended == pc = "done"

Raised(name) == Ended /\ outcome.kind = "raise" /\ outcome.exc = name

LastReq == reqs[Len(reqs)]

\* the Content-Type of the final response names a known media type, or its
\* body starts (after whitespace) like JSON or XML
Decodable ==
    \/ Ct(f.ctype) \in ({JsonType} \cup XmlTypes)
    \/ (~response.gz /\ response.head \in {"{", "<"})

KnownCodes == {200, 400, 429, 504, 403, 502, 503}

\* the query ended at one of the two raise statements after the endpoint loop
Exhausted == Ended /\ exitLine \in {240, 241}

\* position of an endpoint in the endpoint list
Pos(u) == CHOOSE k \in 1..Len(_servers) : _servers[k] = u

\* the delays of the sleeps made while the loop was at endpoint k
DelaysAt(k) ==
    LET es == SelectSeq(sleeps, LAMBDA e : e.srv = k)
    IN  [i \in 1..Len(es) |-> es[i].delay]

(***************************************************************************)
(* Properties                                                              *)
(***************************************************************************)

\* C1: a query whose last response had status 200 and a recognised
\* Content-Type (or, failing that, a body starting with '{' or '<') has
\* returned a decoded Result graph to its caller.
C1_DecodedResultReturned ==
    (Ended /\ last_code = <<200>> /\ f.code = 200 /\ exitLine # 174 /\ Decodable)
        => outcome.kind = "return"

\* C2: a 429 with attempts remaining is followed by one sleep and a request
\* to the same endpoint; a 429 on the last allowed attempt ends the query
\* with TooManyRequests and no request follows it.
C2_RateLimitedRetriesSameEndpoint ==
    [][ /\ (Dispatches /\ f.code = 429) =>
              IF attempt + 1 < max_tries
              THEN /\ Len(sleeps') = Len(sleeps) + 1
                   /\ pc' = "urlopen"
                   /\ hist' = Append(hist, "429")
                   /\ _servers[srv'] = LastReq
              ELSE /\ pc' = "done"
                   /\ outcome' = Raise("OverpassTooManyRequests", << >>)
        /\ (Requests /\ hist # << >> /\ hist[Len(hist)] = "429") =>
              reqs' = Append(reqs, LastReq)
        /\ (Raised("OverpassTooManyRequests") /\ ~Starts) => reqs' = reqs
      ]_vars

C2_Witness ==
    /\ Raised("OverpassTooManyRequests")
    /\ hist = <<"429", "429">>
    /\ Len(reqs) = 3
    /\ srv = 1
    /\ Len(_servers) = 2

\* C3: a 403, 502 or 503 ends the attempts on the endpoint whatever remains:
\* one sleep, then the next request goes to the next endpoint of the list,
\* and no later request of the query goes to an abandoned endpoint.
C3_FailoverAbandonsEndpoint ==
    [][ /\ (Dispatches /\ f.code \in {403, 502, 503}) =>
              /\ Len(sleeps') = Len(sleeps) + 1
              /\ LastReq \in abandoned'
              /\ IF srv < Len(_servers)
                 THEN pc' = "urlopen" /\ srv' = srv + 1 /\ attempt' = 0
                 ELSE pc' = "done"
        /\ Requests =>
              /\ reqs' = Append(reqs, _servers[srv])
              /\ _servers[srv] \notin abandoned
      ]_vars

C3_Witness ==
    /\ pc = "read"
    /\ max_tries = 3
    /\ Len(_servers) = 2
    /\ reqs = << _servers[1], _servers[2] >>
    /\ abandoned = { _servers[1] }

\* C4: a 400 ends the query at once with BadQuery carrying the query text:
\* no sleep, no further attempt, no request to a later endpoint.
C4_BadRequestIsImmediate ==
    [][ /\ (Dispatches /\ f.code = 400) =>
              /\ pc' = "done"
              /\ outcome'.kind = "raise"
              /\ outcome'.exc = "OverpassBadRequest"
              /\ outcome'.args[1] = [text |-> arg.text, bytes |-> TRUE]
              /\ sleeps' = sleeps
              /\ reqs' = reqs
        /\ (Raised("OverpassBadRequest") /\ ~Starts) =>
              (reqs' = reqs /\ sleeps' = sleeps)
      ]_vars

C4_Witness ==
    /\ Raised("OverpassBadRequest")
    /\ arg.text = "q2"
    /\ max_tries = 3
    /\ attempt = 0
    /\ srv = 1
    /\ Len(_servers) = 2
    /\ sleeps = << >>

\* C5: a network error on an attempt with attempts remaining on the endpoint
\* (raised while connecting or while reading the body) does not end the
\* query: it uses up one attempt and is followed by a sleep and another
\* attempt on the same endpoint.
C5_NetworkErrorIsRetried ==
    [][ ((ConnectFails \/ ReadFails) /\ attempt + 1 < max_tries) =>
              /\ pc' = "urlopen"
              /\ srv' = srv
              /\ attempt' = attempt + 1
              /\ Len(sleeps') = Len(sleeps) + 1
      ]_vars

\* C6 (as stated): a query that ends because the endpoint list is exhausted
\* raises the last network error seen, and UnknownHttpStatus with code 0 if
\* it saw none.
C6_ExhaustedRaisesErrorOrZero ==
    Exhausted =>
        IF nErr > 0
        THEN outcome = Raise("URLError", << URLError(nErr) >>)
        ELSE outcome = Raise("OverpassUnknownHTTPStatusCode", <<0>>)

\* C6 (amended): a query that ends because the endpoint list is exhausted
\* raises the last network error seen; if it saw none, it raises
\* UnknownHttpStatus with the status code of the last response it received,
\* which is 403, 502 or 503.
C6_ExhaustedRaisesErrorOrLastStatus ==
    Exhausted =>
        IF nErr > 0
        THEN outcome = Raise("URLError", << URLError(nErr) >>)
        ELSE /\ f.code \in {403, 502, 503}
             /\ outcome = Raise("OverpassUnknownHTTPStatusCode", <<f.code>>)

C6_Witness ==
    /\ Exhausted
    /\ nErr = 0
    /\ Len(_servers) = 2
    /\ Len(reqs) = 2
    /\ f.code = 503

\* the steps a running query can still take: two (send, read) for every
\* attempt the loops have left
StepsLeft ==
    IF pc \in {"urlopen", "read"}
    THEN 2 * ((Len(_servers) - srv) * max_tries + (max_tries - attempt))
           - (IF pc = "read" THEN 1 ELSE 0)
    ELSE 0

\* every query that has started ends, when each request is answered or fails
QueryTerminates == [](pc \in {"urlopen", "read"} => <>Ended)

\* C7: the requests of a query go through the endpoints in list order without
\* coming back to one, no endpoint gets more than max_tries of them, there
\* are at most (number of endpoints x max_tries) in all, and the query ends
\* with a result or one exception: every step of a running query lowers the
\* number of steps it has left.
C7_BoundedOrderedTermination ==
    /\ [](/\ Len(reqs) <= Len(_servers) * max_tries
          /\ \A i \in 1..Len(reqs) :
                /\ Cardinality({ j \in 1..Len(reqs) : reqs[j] = reqs[i] }) <= max_tries
                /\ \A j \in i..Len(reqs) : Pos(reqs[i]) <= Pos(reqs[j])
          /\ Ended => outcome.kind \in {"return", "raise"})
    /\ [][ /\ pc \in {"urlopen", "read"} => StepsLeft' < StepsLeft
           /\ Requests => Len(reqs') = Len(reqs) + 1
           /\ pc = "read" => reqs' = reqs
         ]_vars

C7_Witness ==
    /\ Exhausted
    /\ Len(_servers) = 2
    /\ max_tries = 3
    /\ Len(reqs) = 6

\* C8: a 504 with attempts remaining is followed by one sleep and a request
\* to the same endpoint; a 504 on the last allowed attempt ends the query
\* with GatewayTimeout and no request follows it.
C8_GatewayTimeoutRetriesSameEndpoint ==
    [][ /\ (Dispatches /\ f.code = 504) =>
              IF attempt + 1 < max_tries
              THEN /\ Len(sleeps') = Len(sleeps) + 1
                   /\ pc' = "urlopen"
                   /\ hist' = Append(hist, "504")
                   /\ _servers[srv'] = LastReq
              ELSE /\ pc' = "done"
                   /\ outcome' = Raise("OverpassGatewayTimeout", << >>)
        /\ (Requests /\ hist # << >> /\ hist[Len(hist)] = "504") =>
              reqs' = Append(reqs, LastReq)
        /\ (Raised("OverpassGatewayTimeout") /\ ~Starts) => reqs' = reqs
      ]_vars

C8_Witness ==
    /\ Raised("OverpassGatewayTimeout")
    /\ hist = <<"504", "504">>
    /\ Len(reqs) = 3
    /\ srv = 1
    /\ Len(_servers) = 2

\* C9: a response whose status code is none of 200, 400, 429, 504, 403, 502,
\* 503 ends the query at once with UnknownHttpStatus carrying that code: no
\* sleep, no retry, no request to another endpoint.
C9_UnknownStatusIsFatal ==
    [][ /\ (Dispatches /\ f.code \notin KnownCodes) =>
              /\ pc' = "done"
              /\ outcome' = Raise("OverpassUnknownHTTPStatusCode", <<f.code>>)
              /\ sleeps' = sleeps
              /\ reqs' = reqs
        /\ (Ended /\ f.code \notin KnownCodes /\ last_code = <<f.code>> /\ ~Starts) =>
              (reqs' = reqs /\ sleeps' = sleeps)
      ]_vars

C9_Witness ==
    /\ Raised("OverpassUnknownHTTPStatusCode")
    /\ outcome.args = <<500>>
    /\ max_tries = 3
    /\ attempt = 0
    /\ srv = 1
    /\ Len(_servers) = 2
    /\ sleeps = << >>

\* C10: when the endpoint answered 429 on k consecutive attempts (k >= 1) and
\* then 200 with a decodable body, the query has succeeded on attempt k+1
\* after exactly k sleeps at that endpoint, each longer than the one before.
C10_SucceedsAfterRateLimits ==
    ( /\ Ended
      /\ last_code = <<200>>
      /\ f.code = 200
      /\ Decodable
      /\ hist # << >>
      /\ \A i \in 1..Len(hist) : hist[i] = "429" )
        => /\ outcome.kind = "return"
           /\ attempt = Len(hist)
           /\ Len(DelaysAt(srv)) = Len(hist)
           /\ \A i \in 1..(Len(hist) - 1) : DelaysAt(srv)[i] < DelaysAt(srv)[i + 1]

\* the query ended in the call of the named decoder at the given source line
Called(decoder, line) ==
    /\ exitLine = line
    /\ outcome = Raise("AttributeError", <<decoder>>)

\* C11: on a 200 the declared Content-Type picks the decoder before the body
\* is looked at: the JSON media type picks the JSON decoder, an XML media type
\* the XML decoder; only otherwise the first non-whitespace byte decides
\* ('{' JSON, '<' XML); when neither applies the query ends with
\* UnknownContentType carrying the declared header, with no sleep and no
\* further request.
C11_ContentTypeBeforeSniffing ==
    [][ /\ (Dispatches /\ f.code = 200) =>
              /\ pc' = "done"
              /\ reqs' = reqs
              /\ sleeps' = sleeps
              /\ LET m == f.ctype.media
                     d == response'
                 IN  IF m = JsonType THEN Called("parse_json", 196)'
                     ELSE IF m \in XmlTypes THEN Called("parse_xml", 199)'
                     ELSE IF ~d.gz /\ d.head = "{" THEN Called("parse_json", 203)'
                     ELSE IF ~d.gz /\ d.head = "<" THEN Called("parse_xml", 205)'
                     ELSE /\ exitLine' = 207
                          /\ outcome' = Raise("OverpassUnknownContentType", <<f.ctype>>)
        /\ (Raised("OverpassUnknownContentType") /\ ~Starts) =>
              (reqs' = reqs /\ sleeps' = sleeps)
      ]_vars

\* a decorated JSON Content-Type on a body that starts like XML: the JSON
\* decoder was called
C11_Witness ==
    /\ Ended
    /\ f.code = 200
    /\ f.ctype = [media |-> JsonType, decorated |-> TRUE]
    /\ ~response.gz
    /\ response.head = "<"
    /\ Called("parse_json", 196)
    /\ Len(_servers) = 2
    /\ max_tries = 3

\* an unknown Content-Type on a body that starts like neither: the query ended
\* on the first request although attempts and endpoints remained
C11_WitnessUnknown ==
    /\ Raised("OverpassUnknownContentType")
    /\ outcome.args = << [media |-> "text/html", decorated |-> TRUE] >>
    /\ Len(reqs) = 1
    /\ Len(_servers) = 2
    /\ max_tries = 3

\* the query ended in the dispatch of a response whose Content-Encoding names
\* gzip
GzipDispatched ==
    Ended /\ exitLine # 174 /\ f.code # 0 /\ f.cenc \in {"gzip", "x-GZIP"}

\* the texts of the paragraphs of an error page that open with <strong ...>
ErrorTexts(ps) ==
    LET found == SelectSeq(ps, LAMBDA p : p.strong)
    IN  [k \in 1..Len(found) |-> found[k].text]

\* the payload of the bytes read: what a gzip stream decompresses to, and
\* the bytes themselves when they are no gzip stream
Payload == [raw EXCEPT !.gz = FALSE]

\* C12: when the Content-Encoding names gzip, the dispatch works on the
\* decompressed body; bytes that cannot be decompressed are dispatched as
\* they are, and no failure of the decompression ends the query: a 200 whose
\* Content-Type decides nothing is sniffed on the payload, a 400 reports the
\* messages of the payload.
C12_GzipBestEffort ==
    GzipDispatched =>
        /\ response = Payload
        /\ (f.code = 200 /\ f.ctype.media \notin ({JsonType} \cup XmlTypes)) =>
              CASE raw.head = "{" -> Called("parse_json", 203)
                [] raw.head = "<" -> Called("parse_xml", 205)
                [] OTHER -> Raised("OverpassUnknownContentType")
        /\ f.code = 400 =>
              /\ Raised("OverpassBadRequest")
              /\ outcome.args[2] = ErrorTexts(raw.paras)
        /\ exitLine \in {196, 199, 203, 205, 207, 219, 224, 230, 237, 240, 241}

\* a gzip stream with a JSON payload under "Content-Encoding: x-GZIP" and an
\* undecided Content-Type: the JSON decoder was called
C12_Witness ==
    /\ GzipDispatched
    /\ f.code = 200
    /\ f.cenc = "x-GZIP"
    /\ f.ctype.media = "text/html"
    /\ raw.gz
    /\ raw.head = "{"
    /\ Called("parse_json", 203)

\* bytes that are no gzip stream under "Content-Encoding: x-GZIP": the
\* decompression failed and the 400 dispatch read the messages of the raw bytes
C12_WitnessRawBytes ==
    /\ GzipDispatched
    /\ f.code = 400
    /\ f.cenc = "x-GZIP"
    /\ ~raw.gz
    /\ outcome.args[2] = <<"e1", "e2">>

\* the primary endpoint of the constructor call: the overpass_server argument
\* as a URL (blanks stripped, the http spelling of overpass-api.de being the
\* https endpoint), the first default when the argument is absent or blank
Primary ==
    LET u == [arg.overpass_server EXCEPT !.pad = FALSE]
    IN  IF u = EmptyUrl THEN DEFAULT_OVERPASS_SERVERS[1]
        ELSE IF u = Url("http", "overpass-api.de", FALSE)
        THEN Url("https", "overpass-api.de", FALSE)
        ELSE u

\* the candidates in the order the claim gives: the primary endpoint, then
\* the caller's fallback servers when a list was given, else the defaults
Candidates ==
    <<Primary>> \o
    (IF arg.fallback_servers # << >>
     THEN [k \in 1..Len(arg.fallback_servers) |-> _norm(arg.fallback_servers[k])]
     ELSE DEFAULT_OVERPASS_SERVERS)

FirstPos(us, u) == CHOOSE k \in 1..Len(us) : us[k] = u /\ \A j \in 1..(k - 1) : us[j] # u

\* C13: the endpoint list the constructor builds is not empty, starts with
\* the primary endpoint, holds exactly the primary and the fallback servers
\* (the caller's when given, otherwise the defaults), holds no URL twice, and
\* orders the URLs by their first occurrence.
C13_EndpointListDeduplicated ==
    pc = "idle" =>
        /\ _servers # << >>
        /\ _servers[1] = Primary
        /\ url = Primary
        /\ { _servers[i] : i \in 1..Len(_servers) } =
               { Candidates[k] : k \in 1..Len(Candidates) } \ {EmptyUrl}
        /\ \A i, j \in 1..Len(_servers) :
               /\ _servers[i] = _servers[j] => i = j
               /\ i < j => FirstPos(Candidates, _servers[i]) < FirstPos(Candidates, _servers[j])

\* the primary endpoint is given again, in another spelling, as the second
\* fallback server: it stays first and occurs once
C13_Witness ==
    /\ pc = "idle"
    /\ arg.overpass_server = Url("http", "overpass-api.de", FALSE)
    /\ arg.fallback_servers = << Url("https", "overpass.kumi.systems", FALSE),
                                 Url("https", "overpass-api.de", TRUE) >>
    /\ _servers = << Url("https", "overpass-api.de", FALSE),
                     Url("https", "overpass.kumi.systems", FALSE) >>

\* no fallback list: the primary endpoint followed by the other defaults
C13_WitnessDefaults ==
    /\ pc = "idle"
    /\ arg.overpass_server = Url("https", "overpass.kumi.systems", FALSE)
    /\ arg.fallback_servers = << >>
    /\ Len(_servers) = 4
    /\ _servers[2] = DEFAULT_OVERPASS_SERVERS[1]

\* the last call on the graph has ended
Returned == gpc = "ready"

\* the call ended with an exception of the transport: the follow-up query
\* got no reply to decode
TransportFailed ==
    ret.kind = "raise" /\ ret.exc \in {"OverpassTooManyRequests", "URLError"}

\* the call ended with DataIncomplete
Incomplete == ret.kind = "raise" /\ ret.exc = "DataIncomplete"

\* C14: a get_node / get_way / get_relation with resolve_missing on an id the
\* graph did not hold, whose follow-up query got a reply, has sent exactly
\* one query, for that kind and id, and has either returned the element of
\* that id the graph now holds or failed with DataIncomplete, the id still
\* being absent.
C14_LazyResolveQueriesOnce ==
    ( /\ Returned
      /\ op.name = "get"
      /\ op.resolve_missing
      /\ sent # << >>
      /\ ~TransportFailed )
        => /\ sent = << QueryText(op.kind, op.id, FALSE) >>
           /\ IF get_elements(G, op.kind, op.id) # << >>
              THEN ret = Return(get_elements(G, op.kind, op.id)[1])
              ELSE ret = DataIncomplete(UnresolvedMsg(op.kind))

\* this step is a call of get_node / get_way / get_relation, directly or
\* through a relation member's resolve
Gets == gpc = "ready" /\ op'.name \in {"get", "resolve"}

\* this step sends nothing to the network
NoNetwork == sent' = << >> /\ gpc' = "ready" /\ UNCHANGED << clientvars, pagevars >>

\* C15: get_node, get_way, get_relation and a relation member's resolve,
\* called without resolve_missing on an id absent from the graph, fail with
\* DataIncomplete, send no query, and leave the three collections as they
\* were.
C15_MissingWithoutResolveFails ==
    [][ ( /\ Gets
          /\ ~op'.resolve_missing
          /\ op'.id \notin Ids(Collection(G, op'.kind)) )
            => /\ Incomplete'
               /\ NoNetwork
               /\ UNCHANGED << _nodes, _ways, _relations >>
      ]_vars

\* a relation member that refers to relation 2 was resolved on a graph that
\* holds nodes, a way and relation 1: DataIncomplete, nothing sent
C15_Witness ==
    /\ Returned
    /\ op = Op("resolve", "relation", 2, FALSE, "self")
    /\ ret = DataIncomplete("Resolve missing relations is disabled")
    /\ sent = << >>
    /\ Len(_nodes) = 2
    /\ Len(_ways) = 1
    /\ Len(_relations) = 1

\* the node ids of the way get_nodes was called on
WayNodeIds == op.x.node_ids

\* C16: a Way.get_nodes with resolve_missing on a way with node ids the graph
\* did not hold, whose follow-up query got a reply, has sent exactly one
\* query, the batch query for the way's id and its nodes, and has either
\* returned the nodes or, a node id being still absent, failed with
\* DataIncomplete.
C16_WayNodesResolvedByOneQuery ==
    ( /\ Returned
      /\ op.name = "get_nodes"
      /\ op.resolve_missing
      /\ sent # << >>
      /\ ~TransportFailed )
        => /\ sent = << QueryText("way", op.id, TRUE) >>
           /\ IF \A k \in 1..Len(WayNodeIds) : WayNodeIds[k] \in Ids(_nodes)
              THEN ret = Return(NodesOf(G, WayNodeIds))
              ELSE ret = DataIncomplete("Unable to resolve all nodes")

Expands == gpc = "ready" /\ op'.name = "expand" /\ ret'.kind = "return"

\* C18: G.expand(H) keeps every collection of G as a prefix of the new one
\* (an element of G stays where and what it was, also when H holds another
\* element under its id), appends exactly the elements of H whose id the
\* collection of their kind did not hold, and a second G.expand(H) changes
\* nothing.
C18_ExpandNeverOverwrites ==
    [][ Expands =>
          /\ \A cls \in Kinds :
                LET own   == Collection(G, cls)
                    new   == Collection(G', cls)
                    other == Collection(op'.x, cls)
                IN  /\ Len(new) >= Len(own)
                    /\ \A k \in 1..Len(own) : new[k] = own[k]
                    /\ \A k \in (Len(own) + 1)..Len(new) :
                          /\ new[k].id \notin Ids(own)
                          /\ \E j \in 1..Len(other) : other[j] = new[k]
                    /\ \A j \in 1..Len(other) :
                          other[j].id \notin Ids(own) =>
                              \E k \in (Len(own) + 1)..Len(new) : new[k] = other[j]
                    /\ \A k, j \in 1..Len(new) : new[k].id = new[j].id => k = j
          /\ expand(G', op'.x) = G'
      ]_vars

\* H holds node 1 with other content and node 2: after G.expand(H) the graph
\* holds its own node 1, followed by node 2
C18_Witness ==
    /\ Returned
    /\ op.name = "expand"
    /\ ret.kind = "return"
    /\ op.x.nodes = << Node(1, "b"), Node(2, "a") >>
    /\ _nodes = << Node(1, "a"), Node(2, "a") >>
    /\ _ways = << Way(1, <<2, 1, 2>>) >>

\* this step is a call of append with an element that has an id
Appends == gpc = "ready" /\ op'.name = "append" /\ op'.id # NoId

\* C19 (as stated): after append(e) followed by append(e2), e2 of the kind and
\* id of e, the graph holds exactly one element under that id and it is e.
C19_SecondAppendKeepsFirstArgument ==
    [][ (Appends /\ op.name = "append" /\ op'.kind = op.kind /\ op'.id = op.id)
            => get_elements(G', op.kind, op.id) = << op.x >>
      ]_vars

\* C19 (amended): an append of an element whose kind and id the graph holds
\* changes nothing, and an append of one it does not hold puts the element
\* at the end of the collection of its kind; so after append(e) followed by
\* append(e2), e2 of the kind and id of e, the graph holds exactly one
\* element under that id: e when the id was absent before append(e),
\* otherwise the element held before.
C19_AppendFirstWriteWins ==
    [][ /\ Appends =>
              LET own == Collection(G, op'.kind)
                  new == Collection(G', op'.kind)
              IN  /\ IF op'.id \in Ids(own)
                     THEN new = own
                     ELSE new = Append(own, op'.x)
                  /\ Len(get_elements(G', op'.kind, op'.id)) = 1
                  /\ \A cls \in Kinds \ {op'.kind} :
                        Collection(G', cls) = Collection(G, cls)
        /\ (Appends /\ op.name = "append" /\ op'.kind = op.kind /\ op'.id = op.id)
              => /\ G' = G
                 /\ Len(get_elements(G, op.kind, op.id)) = 1
      ]_vars

\* node 1 with other content was appended twice to a graph that held node 1:
\* the graph holds the node it held
C19_Witness ==
    /\ Returned
    /\ op = Op("append", "node", 1, FALSE, Node(1, "b"))
    /\ _nodes = << Node(2, "a"), Node(1, "a") >>
    /\ Node(1, "a") \in first

\* no collection holds two elements with the same id, and none without id
UniqueIds ==
    \A cls \in Kinds :
        LET coll == Collection(G, cls)
        IN  \A k, j \in 1..Len(coll) :
                /\ coll[k].kind = cls
                /\ coll[k].id # NoId
                /\ coll[k].id = coll[j].id => k = j

\* C20: in every graph (built empty or from a batch by the constructor,
\* changed by append and expand) each kind and id has at most one slot, and
\* the slot holds the element that was inserted first with that kind and id,
\* also when the batch given to the constructor holds two elements of one
\* kind and id.
C20_SlotHoldsFirstInserted ==
    /\ UniqueIds
    /\ Held(G) = first

\* the positions of the error fragments in the paragraphs of an error page
FragmentPositions(ps) == { k \in 1..Len(ps) : ps[k].strong }

\* the position of the j-th error fragment
FragmentAt(ps, j) ==
    CHOOSE k \in FragmentPositions(ps) :
        Cardinality({ i \in FragmentPositions(ps) : i <= k }) = j

C27_WitnessOrder ==
    /\ Raised("OverpassBadRequest")
    /\ response.paras = << Para(TRUE, "e2"), Para(TRUE, "e1") >>
    /\ outcome.args[2] = << "e2", "e1" >>

C27_WitnessNoFragment ==
    /\ Raised("OverpassBadRequest")
    /\ response.paras = << Para(FALSE, "p") >>
    /\ outcome.args[2] = << >>

\* this step belongs to a call that resolves a missing element: it sends the
\* follow-up query, or it is the end of that query
Resolving == gpc' = "query" \/ gpc = "query"

\* C21: a lazy-resolution call (get_node, get_way, get_relation, a member's
\* resolve or Way.get_nodes with resolve_missing) whose follow-up query ends
\* in an error, or whose reply is not decoded, leaves the three collections
\* of the graph exactly as they were before the call.
C21_FailedResolutionLeavesGraph ==
    [][ ( /\ Resolving
          /\ gpc' = "ready" => ret'.kind = "raise" )
            => UNCHANGED << _nodes, _ways, _relations >> ]_vars

\* a get_way with resolve_missing on a graph that holds a node and a way
\* failed in the decoder; a Way.get_nodes failed in the transport
C21_Witness ==
    /\ Returned
    /\ op.name = "get"
    /\ op.kind = "relation"
    /\ op.resolve_missing
    /\ sent = << QueryText("relation", op.id, FALSE) >>
    /\ ret.kind = "raise"
    /\ ret.exc = "AttributeError"
    /\ _nodes # << >>
    /\ _ways # << >>

C21_WitnessWayNodes ==
    /\ Returned
    /\ op.name = "get_nodes"
    /\ op.resolve_missing
    /\ sent # << >>
    /\ TransportFailed
    /\ _nodes # << >>

\* this step is the call of a relation member's resolve
Resolves == gpc = "ready" /\ op'.name = "resolve"

\* C30: the resolve of a relation member of kind k and ref r is get_node /
\* get_way / get_relation of kind k on r: it returns the element of that kind
\* and id the graph holds, as it is held (its members are not resolved), or
\* fails, or sends one query for that kind and id; the step after the query
\* ends the call.  No resolve sends a second query, also on a relation that
\* is a member of itself.
C30_ResolveIsOneAccessorCall ==
    [][ /\ Resolves =>
              \/ /\ gpc' = "ready"
                 /\ sent' = << >>
                 /\ \/ /\ ret'.kind = "return"
                       /\ ret'.value.kind = op'.kind
                       /\ ret'.value.id = op'.id
                       /\ ret'.value \in Held(G)
                    \/ ret' = DataIncomplete(DisabledMsg(op'.kind))
              \/ /\ gpc' = "query"
                 /\ op'.resolve_missing
                 /\ sent' = << QueryText(op'.kind, op'.id, FALSE) >>
        /\ (gpc = "query" /\ op.name = "resolve") =>
              /\ gpc' = "ready"
              /\ sent' = sent
              /\ op' = op
      ]_vars

\* the relation that is a member of itself was resolved through its own
\* member: the relation came back with its members as references
C30_Witness ==
    /\ Returned
    /\ op.name = "resolve"
    /\ op.kind = "relation"
    /\ op.id = 1
    /\ ret = Return(Relation(1, << Member("relation", 1), Member("way", 2) >>))
    /\ sent = << >>

\* the way member of that relation, absent from the graph, was resolved with
\* resolve_missing: one query, and the call has ended
C30_WitnessQuery ==
    /\ Returned
    /\ op.name = "resolve"
    /\ op.kind = "way"
    /\ op.id = 2
    /\ op.resolve_missing
    /\ Relation(1, << Member("relation", 1), Member("way", 2) >>) \in Held(G)
    /\ sent = << QueryText("way", 2, FALSE) >>
    /\ ret.kind = "raise"

\* the last call on the graph was get_bounds
BoundsAsked == gpc = "ready" /\ op.name = "get_bounds"

\* C23: get_bounds on a graph without nodes raises and gives no box, however
\* the graph was built: by Result(), from JSON, from a whole XML document or
\* by the incremental XML parser.
C23_NoNodesNoBox ==
    (BoundsAsked /\ _nodes = << >>) => (ret.kind = "raise" /\ _bounds = << >>)

\* a document whose elements are nodes, ways and relations, each a child of
\* the root
WellFormed(data) ==
    \A k \in 1..Len(data.elements) :
        data.elements[k].type \in Kinds /\ data.elements[k].depth = 1

\* what the equivalence of two decoded elements looks at: id, tags, the node
\* ids (a list, or None) and the members with kind, ref and role
Content(e) ==
    [id |-> e.id, tags |-> e.tag, node_ids |-> e.node_ids,
     node_ids_none |-> e.node_ids_none, members |-> e.members]

\* two graphs hold, kind by kind, the same ids in the same order and elements
\* of equal content under each id
SameElements(g, h) ==
    \A cls \in Kinds :
        /\ Len(Collection(g, cls)) = Len(Collection(h, cls))
        /\ \A k \in 1..Len(Collection(g, cls)) :
              /\ k <= Len(Collection(h, cls))
              /\ Content(Collection(g, cls)[k]) = Content(Collection(h, cls)[k])

\* the last call built the graph of the state from a document
Decoded(name, mode) ==
    gpc = "ready" /\ op.name = name /\ op.kind = mode

\* C24: the graph decoded from the JSON encoding of a well-formed element
\* list and the graph decoded from its XML encoding hold the same ids per
\* kind in the same order, and under each id the same tags, node ids and
\* members.
C24_JsonXmlSameGraph ==
    (Decoded("from_json", "") /\ WellFormed(op.x)) =>
        LET xml == Result_from_xml(op.x, FALSE, 0, 0, "self")
        IN  xml.kind = "return" /\ SameElements(G, xml.value)

\* the elements of a kind a graph holds, by content
ContentsOf(g, cls) ==
    { Content(Collection(g, cls)[k]) : k \in 1..Len(Collection(g, cls)) }

\* C25: the incremental parser builds from an XML document the graph the
\* whole-document parser builds from it: per kind the same elements, with
\* the same tags, node ids and members, at whatever depth below the root the
\* elements are and whenever their children reach the parser.
C25_IterparseSameElements ==
    Decoded("from_xml", "iterparse") =>
        LET whole == Result_from_xml(op.x, FALSE, 0, 0, "self")
        IN  /\ whole.kind = "return"
            /\ \A cls \in Kinds : ContentsOf(G, cls) = ContentsOf(whole.value, cls)

\* the last call was the from_json / from_xml of an element class, or of a
\* member class, on a single record
ElementCall == gpc = "done" /\ op.name \in Formats /\ op.kind \in Kinds

MemberCall ==
    gpc = "done" /\ op.name \in Formats /\ op.kind \in { "member " \o cls : cls \in Kinds }

\* the member class of the call
MemberClass == CHOOSE cls \in Kinds : op.kind = "member " \o cls

\* the records of a document that declare the kind cls and the id i
Declaring(data, cls, i) ==
    { k \in 1..Len(data.elements) :
        Lower(data.elements[k].type) = cls /\ data.elements[k].id = i }

\* C26: a Node, Way, Relation or relation member is constructed only from a
\* record that declares the type of that class; from_json / from_xml of a
\* class on a record of another type fails with ElementDataWrongType, and
\* every element and member of a decoded graph is stored under the kind its
\* record declared.
C26_OnlyDeclaredKindIsBuilt ==
    /\ ElementCall =>
          /\ Lower(op.x.type) # op.kind =>
                /\ ret.kind = "raise"
                /\ ret.exc = "ElementDataWrongType"
                /\ ret.args[1] = op.kind
          /\ (ret.kind = "raise" /\ ret.exc # "ElementDataWrongType") =>
                (op.name = "from_xml" /\ XmlFault(op.x, op.kind) # << >>)
          /\ ret.kind = "return" => (ret.value.kind = op.kind /\ Lower(op.x.type) = op.kind)
    /\ MemberCall =>
          /\ op.x.type # MemberClass =>
                (ret.kind = "raise" /\ ret.exc = "ElementDataWrongType")
          /\ ret.kind = "return" => (ret.value.kind = MemberClass /\ op.x.type = MemberClass)
    /\ (gpc = "ready" /\ op.name \in Formats) =>
          \A cls \in Kinds : \A k \in 1..Len(Collection(G, cls)) :
              LET e == Collection(G, cls)[k]
              IN  /\ e.kind = cls
                  /\ \E j \in Declaring(op.x, cls, e.id) :
                        \A m \in 1..Len(e.members) :
                            \E n \in 1..Len(op.x.elements[j].members) :
                                /\ op.x.elements[j].members[n].type = e.members[m].kind
                                /\ op.x.elements[j].members[n].ref = e.members[m].ref

\* Way.from_json on the record of a node has failed; a relation decoded from
\* a document holds its two members of supported types
C26_Witness ==
    /\ ElementCall
    /\ op.name = "from_json"
    /\ op.kind = "way"
    /\ op.x.type = "node"
    /\ ret = ElementDataWrongType("way", "node")

C26_WitnessMember ==
    /\ MemberCall
    /\ op.name = "from_xml"
    /\ MemberClass = "node"
    /\ op.x.type = "way"
    /\ ret = ElementDataWrongType("node", "member")

C26_WitnessGraph ==
    /\ gpc = "ready"
    /\ op.name = "from_json"
    /\ Len(_relations) = 1
    /\ _relations[1].members =
          << RelationMember("relation", 1, "r"), RelationMember("way", 1, "") >>
    /\ Len(_nodes) = 1

\* C22: whenever get_bounds has returned on a graph that holds nodes, after
\* any appends, expands, lookups and earlier get_bounds calls, the box it
\* gave is the envelope of the nodes the graph holds at that call.
C22_BoundsAreEnvelope ==
    (BoundsAsked /\ _nodes # << >>) => ret = Envelope(G)

\* this step is way.get_nodes on a way G holds whose node ids G holds all
NodesAskedHeld ==
    /\ gpc = "ready"
    /\ op'.name = "get_nodes"
    /\ ~op'.x.node_ids_none
    /\ FirstMissing(G, op'.x.node_ids, 1) > Len(op'.x.node_ids)

\* this step is the resolve of a member of a relation G holds whose element
\* G holds
MemberAskedHeld ==
    /\ Resolves
    /\ get_elements(G, op'.kind, op'.id) # << >>

\* C28: get_nodes on a way of G looks the node ids up in G, and a member of
\* a relation of G resolves through G, however the way or relation came
\* into G: when G holds what is asked for, the call returns G's elements
\* and sends no query.
C28_LooksUpInContainingGraph ==
    [][ /\ NodesAskedHeld =>
              /\ ret' = Return(NodesOf(G, op'.x.node_ids))
              /\ sent' = << >>
        /\ MemberAskedHeld =>
              /\ ret' = Return(get_elements(G, op'.kind, op'.id)[1])
              /\ sent' = << >> ]_vars

\* C29: no operation removes an element: every (kind, id) pair present
\* before a step of append, expand, an accessor, resolve, get_nodes, a
\* follow-up reply or get_bounds is present after it.
C29_NeverRemoves ==
    [][ Pairs(G) \subseteq Pairs(G)' ]_vars

\* expand(H) has added the way 1 of H to a graph that keeps its two nodes
C29_Witness ==
    /\ op.name = "expand"
    /\ ret.kind = "return"
    /\ Pairs(G) = { <<"node", 1>>, <<"node", 2>>, <<"way", 1>> }
    /\ _ways[1].result = "other"

\* a lookup with resolve_missing whose follow-up query failed has left a
\* graph of five elements, the appended node 3 among them
C29_WitnessFailedLookup ==
    /\ op.name \in {"get", "resolve", "get_nodes"}
    /\ op.resolve_missing
    /\ gpc = "ready"
    /\ ret.kind = "raise"
    /\ sent # << >>
    /\ Cardinality(Pairs(G)) = 5

\* get_bounds has returned on a graph that holds the nodes 1, 2 and 3
C29_WitnessBounds ==
    /\ BoundsAsked
    /\ ret.kind = "return"
    /\ Len(_nodes) = 3

\* the last call was Result.from_json or Result.from_xml on a document
DecodeCall ==
    /\ gpc \in {"ready", "done"}
    /\ op.name \in Formats
    /\ op.kind \in {"", "whole", "iterparse"}

\* a record with a fatal parse error: in XML a node, way or relation with a
\* tag child without key, a way with an nd child without ref, a node with a
\* lat or lon that is no number; in JSON a node, way or relation whose type
\* is not spelled as the class spells it
Fatal(rec, format) ==
    /\ Lower(rec.type) \in Kinds
    /\ IF format = "from_xml" THEN XmlFault(rec, Lower(rec.type)) # << >>
       ELSE rec.type # Lower(rec.type)

\* C31: a decode of a document one of whose elements (children of the root)
\* has a fatal parse error fails, and no graph is returned.
C31_ParseErrorAbortsDecode ==
    (DecodeCall /\ \E k \in 1..Len(op.x.elements) :
                      op.x.elements[k].depth = 1 /\ Fatal(op.x.elements[k], op.name))
    => (ret.kind = "raise" /\ gpc = "done" /\ G = Result(<< >>))

\* the members a decoded relation is to have: those of the record whose type
\* is node, way or relation, in the record's order, each with the kind of
\* its type
KeptMembers(ms) ==
    LET kept == SelectSeq(ms, LAMBDA m : m.type \in Kinds)
    IN  [k \in 1..Len(kept) |-> RelationMember(kept[k].type, kept[k].ref, kept[k].role)]

\* C32: Relation.from_json and Relation.from_xml on a relation record return
\* a relation whose members are the record's members of type node, way or
\* relation, in their order and each of the kind of its type; a member of
\* another type is left out and does not make the decode fail.  The same
\* holds of every relation of a graph decoded from JSON or from a whole XML
\* document.
C32_UnknownMembersDropped ==
    /\ (ElementCall /\ op.kind = "relation" /\ op.x.type = "relation") =>
          /\ ret.kind = "return"
          /\ ret.value.members = KeptMembers(op.x.members)
    /\ (Decoded("from_json", "") \/ Decoded("from_xml", "whole")) =>
          \A k \in 1..Len(_relations) :
              \E j \in Declaring(op.x, "relation", _relations[k].id) :
                  _relations[k].members = KeptMembers(op.x.elements[j].members)
    /\ (DecodeCall /\ op.kind # "iterparse" /\ ret.kind = "raise") =>
          \E k \in 1..Len(op.x.elements) : Fatal(op.x.elements[k], op.name)

\* Relation.from_xml on the relation whose second member is of type area has
\* returned the relation with its first and third member
C32_Witness ==
    /\ ElementCall
    /\ op.name = "from_xml"
    /\ op.kind = "relation"
    /\ Len(op.x.members) = 3
    /\ op.x.members[2].type = "area"
    /\ ret.kind = "return"
    /\ ret.value.members = << RelationMember("relation", 1, "r"), RelationMember("way", 1, "") >>

\* a graph decoded from a JSON document holds that relation with two members
C32_WitnessGraph ==
    /\ Decoded("from_json", "")
    /\ Len(_relations) = 1
    /\ Len(_relations[1].members) = 2
    /\ \E k \in 1..Len(op.x.elements) : Len(op.x.elements[k].members) = 3

\* with n connections open before the events es: never more than one is
\* open, and none is open when a request is sent or a sleep begins
RECURSIVE OneAtATime(_, _)
OneAtATime(n, es) ==
    /\ n <= 1
    /\ es # << >> =>
          /\ Head(es) \in {"request", "sleep"} => n = 0
          /\ OneAtATime(OpenAfter(n, << Head(es) >>), Tail(es))

\* C33: at every point of a query at most one connection is open; the
\* connection of an attempt is closed before the backoff sleep and before
\* the next request, and none is open when the query has returned or
\* raised, also after a failure while reading the body.
C33_OneConnectionAtATime ==
    /\ OneAtATime(conn.open, conn.events)
    /\ pc \in {"done", "urlopen"} => OpenAfter(conn.open, conn.events) = 0

\* an attempt has sent its request, opened, closed and slept, and the next
\* request is about to be sent
C33_Witness ==
    /\ pc = "urlopen"
    /\ conn.events = << "request", "open", "close", "sleep" >>
    /\ Len(reqs) >= 1

\* the query has ended by a failure while reading the body of its second
\* request
C33_WitnessReadError ==
    /\ pc = "done"
    /\ exitLine = 174
    /\ Len(reqs) = 2
    /\ conn.events = << "request", "open", "close" >>

\* no query of the client is running
AtRest == pc \in {"idle", "done"}

\* C34: query leaves the client's configuration as it found it: no step
\* changes the endpoint list or max_tries, and the url attribute has after
\* every query the value it had before.  A client is constructed with url =
\* the first endpoint, so query restores url in every query exactly when
\* url is the first endpoint whenever no query is running.
C34_QueryLeavesConfiguration ==
    [][ /\ _servers' = _servers
        /\ max_tries' = max_tries
        /\ AtRest' => url' = _servers'[1] ]_vars

\* C35: every backoff sleep of a query is followed by a further request of
\* that query: the last thing a query did before it returned or raised was
\* not a sleep.
C35_NoSleepBeforeLeaving ==
    (pc = "done" /\ conn.events # << >>) =>
        conn.events[Len(conn.events)] # "sleep"

\* C38: the first request of every query goes to the first endpoint of the
\* list, wherever earlier queries of the client ended: a query that begins
\* starts its endpoint loop at the first endpoint, and the request that
\* makes the list of its requests non-empty is sent there.
C38_EveryQueryStartsAtFirstEndpoint ==
    [][ /\ (AtRest /\ pc' = "urlopen") => (srv' = 1 /\ attempt' = 0)
        /\ (reqs = << >> /\ reqs' # << >>) => reqs' = << _servers[1] >> ]_vars

\* the first request of a query on a client with several endpoints has been
\* sent, to the first endpoint
C38_Witness ==
    /\ pc = "read"
    /\ Len(_servers) >= 2
    /\ reqs = << _servers[1] >>

\* a query has ended on another endpoint than the first, after a failover;
\* the client is ready for its next query
C38_WitnessEarlierFailover ==
    /\ pc = "done"
    /\ srv > 1
    /\ abandoned # {}

\* this step is a call of get_node / get_way / get_relation, directly or by
\* a member's resolve
LooksUp == gpc = "ready" /\ op'.name \in {"get", "resolve"}

\* C36: lazy resolution is idempotent.  The element a lookup returns is the
\* one the graph then holds under that kind and id; an element the graph
\* holds under a kind and id is never removed or replaced by any operation;
\* and every lookup of a kind and id the graph holds, with resolve_missing
\* true or false, returns the element held, sends no query and leaves the
\* graph as it is.  So after a lookup has succeeded every later lookup of
\* that id returns the identical element without a query.
C36_ResolvedStaysResolved ==
    [][ /\ (ret'.kind = "return" /\ op'.name \in {"get", "resolve"}) =>
              << ret'.value >> = get_elements(G', op'.kind, op'.id)
        /\ \A cls \in Kinds, i \in IdInputs :
              get_elements(G, cls, i) # << >> =>
                  get_elements(G', cls, i) = get_elements(G, cls, i)
        /\ (LooksUp /\ get_elements(G, op'.kind, op'.id) # << >>) =>
              /\ ret' = Return(get_elements(G, op'.kind, op'.id)[1])
              /\ sent' = << >>
              /\ gpc' = "ready"
              /\ G' = G ]_vars

\* get_node(1, resolve_missing=True) has returned the node first inserted,
\* in a graph that was offered a second node with that id
C36_Witness ==
    /\ gpc = "ready"
    /\ op.name = "get"
    /\ op.kind = "node"
    /\ op.id = 1
    /\ op.resolve_missing
    /\ ret.kind = "return"
    /\ ret.value = _nodes[1]

\* a later lookup without resolve_missing has returned an element
C36_WitnessLater ==
    /\ gpc = "ready"
    /\ op.name \in {"get", "resolve"}
    /\ ~op.resolve_missing
    /\ ret.kind = "return"
    /\ ret.value \in Held(G)

\* C37: whenever Way.get_nodes returns, at once or after its follow-up
\* query, the list has the length of the way's node ids and its i-th node
\* has the i-th id, also when an id occurs more than once.
C37_NodesMatchNodeIds ==
    [][ (op'.name = "get_nodes" /\ ret'.kind = "return") =>
            /\ Len(ret'.value) = Len(op'.x.node_ids)
            /\ \A i \in 1..Len(op'.x.node_ids) :
                  ret'.value[i].id = op'.x.node_ids[i] ]_vars

\* get_nodes has returned three nodes for the way 2, 1, 2
C37_Witness ==
    /\ op.name = "get_nodes"
    /\ op.x.node_ids = << 2, 1, 2 >>
    /\ ret.kind = "return"
    /\ Len(ret.value) = 3
    /\ ret.value[1] = ret.value[3]

\* the items of a page: the lists under the item keys, in the order of the keys
PageItems(p) ==
    IF ~p.dict THEN << >>
    ELSE (IF p.segmenter = << >> THEN << >> ELSE p.segmenter[1])
         \o (IF p.vegnett = << >> THEN << >> ELSE p.vegnett[1])
         \o (IF p.objekter = << >> THEN << >> ELSE p.objekter[1])

\* the items of the pages at the URLs us, in that order
RECURSIVE ItemsOfPages(_)
ItemsOfPages(us) ==
    IF us = << >> THEN << >>
    ELSE PageItems(service[us[1]]) \o ItemsOfPages(Tail(us))

\* a link to a further page is pending after the requests made so far
LinkPending ==
    \/ requested = << >>
    \/ LET link == service[requested[Len(requested)]]
       IN  link.dict /\ link.href \notin {<< >>, << "" >>}

\* what holds of _fetch_all_pages after any of its steps
PagesBounded ==
    /\ page_count <= max_pages
    /\ page_count = Len(requested)
    /\ ppc = "done" =>
        /\ truncated <=> (page_count = max_pages /\ LinkPending)
        /\ ~truncated => ~LinkPending
        /\ all_items = ItemsOfPages(requested)

\* C39: _fetch_all_pages requests at most max_pages pages and every
\* iteration of its loop either leaves the loop or makes one more request,
\* so that it terminates on cyclic next links too; when it returns,
\* truncated is true exactly when a next link was pending after max_pages
\* pages, page_count is the number of requests made and the items are the
\* items of the requested pages in the order of the requests.
C39_PagesBoundedAndInOrder ==
    [][ /\ ppc = "loop" => (ppc' # "loop" \/ page_count' = page_count + 1)
        /\ ppc # "loop" => UNCHANGED vars
        /\ PagesBounded' ]_vars

\* the next links form a cycle (a page is requested twice) and the function
\* returns truncated after max_pages requests
C39_Witness ==
    /\ ppc = "done"
    /\ truncated
    /\ page_count = max_pages
    /\ \E i, j \in 1..Len(requested) : i < j /\ requested[i] = requested[j]
    /\ Len(all_items) >= 3

\* the function returns before max_pages with the items of a page that
\* holds lists under two keys
C39_WitnessComplete ==
    /\ ppc = "done"
    /\ ~truncated
    /\ page_count < max_pages
    /\ \E k \in 1..Len(requested) :
           service[requested[k]].vegnett # << >> /\ service[requested[k]].objekter # << >>
    /\ Len(all_items) >= 4

TypeOK ==
    /\ pc \in {"idle", "urlopen", "read", "done"}
    /\ srv \in 1..Len(_servers)
    /\ attempt \in 0..(max_tries - 1)
    /\ Len(last_code) <= 1
    /\ Len(last_exc) <= 1

====
